---- MODULE Spec2Model ----
(***************************************************************************)
(* Model of the diagnostic flow engine: FlowValidator (flow validation),   *)
(* evaluateCondition / resolveMeasureBranch (condition evaluator),         *)
(* FlowEngine (session lifecycle, response processing, STOP artifact) and  *)
(* StorageService (one slot for the session state, one list for history).  *)
(*                                                                         *)
(* Conventions                                                             *)
(*  - JavaScript numbers are integers counted in tenths (11.8 is 118).     *)
(*  - A JavaScript string that the code only compares or copies is a TLA+  *)
(*    string; a string the code parses or builds (a branch condition, an   *)
(*    artifact value) is a sequence of tokens.                             *)
(*  - A JavaScript object is an ordered map: keys in insertion order plus  *)
(*    a function on those keys (Object.keys / Object.entries order).       *)
(*  - A response value is a tagged record (string | number | boolean).     *)
(***************************************************************************)
EXTENDS Integers, Sequences, FiniteSets, TLC

VARIABLES flow, engine, slot, history, held, inputs, marks, nextId, now, last

vars == <<flow, engine, slot, history, held, inputs, marks, nextId, now, last>>

(***************************************************************************)
(* Bounds                                                                  *)
(***************************************************************************)
MaxSessions == 2
MaxTime == 1
MaxEvents == 4
MaxExtra == 1
MaxNodes == 3

(***************************************************************************)
(* Generic helpers                                                         *)
(***************************************************************************)
Range(s) == { s[i] : i \in 1..Len(s) }

Last(s) == s[Len(s)]

RECURSIVE Pow10(_)
Pow10(k) == IF k = 0 THEN 1 ELSE 10 * Pow10(k - 1)

SetToSeq(S) == CHOOSE s \in [1..Cardinality(S) -> S] : Range(s) = S

(***************************************************************************)
(* JavaScript objects: ordered maps                                        *)
(***************************************************************************)
Obj(pairs) ==
  [keys |-> [i \in 1..Len(pairs) |-> pairs[i][1]],
   at   |-> [k \in { pairs[i][1] : i \in 1..Len(pairs) } |->
               (CHOOSE p \in Range(pairs) : p[1] = k)[2]]]

EmptyObj == [keys |-> <<>>, at |-> <<>>]

Has(o, k) == k \in Range(o.keys)

\* names every plain object inherits from Object.prototype: o[k] is truthy
\* for them although k is not a key of o
ObjectProtoKeys == {"constructor"}

\* what a truthy non-string value turns into when used as a string
FnObjectStr == "function Object() { [native code] }"
UndefinedStr == "undefined"

(***************************************************************************)
(* Response values                                                         *)
(***************************************************************************)
StrV(s) == [k |-> "string", s |-> s]
NumV(n) == [k |-> "number", n |-> n]
BoolV(b) == [k |-> "boolean", b |-> b]

\* numerals: the decimal text of the numbers of the model, in tenths
Numerals ==
  [s \in {"0", "1", "9", "10", "11.5", "11.8", "12", "15", "16"} |->
     CASE s = "0" -> 0 [] s = "1" -> 10 [] s = "9" -> 90 [] s = "10" -> 100
       [] s = "11.5" -> 115 [] s = "11.8" -> 118 [] s = "12" -> 120
       [] s = "15" -> 150 [] s = "16" -> 160]

NaN == [k |-> "NaN"]

\* String(value)
String(v) ==
  CASE v.k = "string"  -> v.s
    [] v.k = "boolean" -> IF v.b THEN "true" ELSE "false"
    [] v.k = "number"  -> CHOOSE s \in DOMAIN Numerals : Numerals[s] = v.n

\* Number(value): a number, or NaN
Number(v) ==
  CASE v.k = "number"  -> v
    [] v.k = "boolean" -> NumV(IF v.b THEN 10 ELSE 0)
    [] v.k = "string"  -> IF v.s \in DOMAIN Numerals THEN NumV(Numerals[v.s])
                          ELSE IF v.s = "" THEN NumV(0) ELSE NaN

isNaN(x) == x.k = "NaN"

(***************************************************************************)
(* Condition evaluator                                                     *)
(* A condition is a sequence of one-character tokens, "< 11.8" being       *)
(* <<"<", " ", "1", "1", ".", "8">>.                                       *)
(***************************************************************************)
Digits == {"0", "1", "2", "3", "4", "5", "6", "7", "8", "9"}

DigitVal(c) ==
  CASE c = "0" -> 0 [] c = "1" -> 1 [] c = "2" -> 2 [] c = "3" -> 3
    [] c = "4" -> 4 [] c = "5" -> 5 [] c = "6" -> 6 [] c = "7" -> 7
    [] c = "8" -> 8 [] c = "9" -> 9

RECURSIVE DropSpaces(_)
DropSpaces(s) ==
  IF s # <<>> /\ Head(s) = " " THEN DropSpaces(Tail(s)) ELSE s

RECURSIVE DropTrailingSpaces(_)
DropTrailingSpaces(s) ==
  IF s # <<>> /\ Last(s) = " "
  THEN DropTrailingSpaces(SubSeq(s, 1, Len(s) - 1)) ELSE s

\* String.prototype.trim
Trim(s) == DropTrailingSpaces(DropSpaces(s))

\* the longest prefix of s made of digits
RECURSIVE DigitPrefix(_)
DigitPrefix(s) ==
  IF s # <<>> /\ Head(s) \in Digits
  THEN <<Head(s)>> \o DigitPrefix(Tail(s)) ELSE <<>>

RECURSIVE DigitsToInt(_)
DigitsToInt(s) ==
  IF s = <<>> THEN 0
  ELSE DigitsToInt(SubSeq(s, 1, Len(s) - 1)) * 10 + DigitVal(Last(s))

\* parseFloat on a text made of digits and dots: the number m / 10^f read
\* from the longest prefix that is a decimal literal, or NaN
parseFloat(s) ==
  LET ip   == DigitPrefix(s)
      rest == SubSeq(s, Len(ip) + 1, Len(s))
      fp   == IF rest # <<>> /\ Head(rest) = "."
              THEN DigitPrefix(Tail(rest)) ELSE <<>>
  IN IF ip = <<>> /\ fp = <<>> THEN [nan |-> TRUE, m |-> 0, f |-> 0]
     ELSE [nan |-> FALSE, m |-> DigitsToInt(ip \o fp), f |-> Len(fp)]

\* condition.trim().match(/^([<>!=]=?)\s*([\d.]+)$/)
MatchCondition(condition) ==
  LET c    == Trim(condition)
      two  == Len(c) >= 2 /\ c[2] = "="
      op   == IF two THEN <<c[1], c[2]>> ELSE <<c[1]>>
      rest == DropSpaces(SubSeq(c, Len(op) + 1, Len(c)))
  IN IF c # <<>> /\ c[1] \in {"<", ">", "!", "="} /\ rest # <<>>
        /\ \A i \in 1..Len(rest) : rest[i] \in Digits \cup {"."}
     THEN [matched |-> TRUE, operator |-> op, number |-> rest]
     ELSE [matched |-> FALSE, operator |-> <<>>, number |-> <<>>]

\* does evaluateCondition throw for this condition (no match, or an
\* operator the switch does not know: "=" and "!" alone match the regex)
ConditionThrows(condition) ==
  LET m == MatchCondition(condition)
  IN \/ ~m.matched
     \/ m.operator \notin {<<"<">>, <<"<", "=">>, <<">">>, <<">", "=">>,
                            <<"=", "=">>, <<"!", "=">>}

\* an evaluateCondition that reads the threshold with parseInt: the digits
\* after the dot are dropped
evaluateConditionParseInt(condition, value) ==
  LET m   == MatchCondition(condition)
      thr == parseFloat(DigitPrefix(m.number))
      a   == value
      b   == thr.m * 10
  IN IF thr.nan THEN m.operator = <<"!", "=">>
     ELSE
     CASE m.operator = <<"<">>      -> a < b
       [] m.operator = <<"<", "=">> -> a <= b
       [] m.operator = <<">">>      -> a > b
       [] m.operator = <<">", "=">> -> a >= b
       [] m.operator = <<"=", "=">> -> a = b
       [] m.operator = <<"!", "=">> -> a # b

\* evaluateCondition(condition, value) for a condition that does not throw;
\* value is a number in tenths, the threshold is m / 10^f
evaluateCondition(condition, value) ==
  LET m   == MatchCondition(condition)
      thr == parseFloat(m.number)
      a   == value * Pow10(thr.f)
      b   == thr.m * 10
  IN IF thr.nan THEN m.operator = <<"!", "=">>
     ELSE
     CASE m.operator = <<"<">>      -> a < b
       [] m.operator = <<"<", "=">> -> a <= b
       [] m.operator = <<">">>      -> a > b
       [] m.operator = <<">", "=">> -> a >= b
       [] m.operator = <<"=", "=">> -> a = b
       [] m.operator = <<"!", "=">> -> a # b

\* a resolveMeasureBranch that lets the last branch whose condition holds win
resolveMeasureBranchLast(branches, value) ==
  LET holds == {i \in 1..Len(branches) :
                  evaluateCondition(branches[i].condition, value)}
  IN IF holds = {} THEN UndefinedStr
     ELSE branches[CHOOSE i \in holds : \A j \in holds : j <= i].next

\* resolveMeasureBranch: the next of the first branch whose condition holds,
\* or UndefinedStr (null) when none does
RECURSIVE resolveMeasureBranch(_, _)
resolveMeasureBranch(branches, value) ==
  IF branches = <<>> THEN UndefinedStr
  ELSE IF evaluateCondition(Head(branches).condition, value)
       THEN Head(branches).next
       ELSE resolveMeasureBranch(Tail(branches), value)

(***************************************************************************)
(* FlowValidator                                                           *)
(* A verdict is Ok or Err(rule, node, detail): rule names the throw        *)
(* statement, node the offending node id, detail what the message quotes.  *)
(***************************************************************************)
Ok == [ok |-> TRUE, rule |-> "", node |-> "", detail |-> <<>>]

Err(rule, node, detail) ==
  [ok |-> FALSE, rule |-> rule, node |-> node, detail |-> detail]

\* the first verdict of a sequence of verdicts that is an error (a loop that
\* throws at the first violation), Ok when there is none
RECURSIVE FirstError(_)
FirstError(vs) ==
  IF vs = <<>> THEN Ok
  ELSE IF Head(vs).ok THEN FirstError(Tail(vs)) ELSE Head(vs)

\* !x || typeof x !== 'string' for a field holding a TLA+ string
NoString(r, f) == f \notin DOMAIN r \/ r[f] = ""

IsArrayNodes(nodes) == "items" \in DOMAIN nodes

validateTopLevel(raw) ==
  CASE NoString(raw, "flowId")      -> Err("flowId", "", <<>>)
    [] NoString(raw, "flowVersion") -> Err("flowVersion", "", <<>>)
    [] NoString(raw, "startNode")   -> Err("startNode", "", <<>>)
    [] "nodes" \notin DOMAIN raw    -> Err("nodes missing", "", <<>>)
    [] IsArrayNodes(raw.nodes)      -> Err("nodes array", "", <<>>)
    [] raw.nodes.keys = <<>>        -> Err("nodes empty", "", <<>>)
    [] ~Has(raw.nodes, raw.startNode)
       /\ raw.startNode \notin ObjectProtoKeys
                                    -> Err("startNode does not exist", "",
                                           <<raw.startNode>>)
    [] OTHER                        -> Ok

validateQuestionNode(nodeId, node, allNodeIds) ==
  IF NoString(node, "text") THEN Err("QUESTION text", nodeId, <<>>)
  ELSE IF "answers" \notin DOMAIN node
  THEN Err("QUESTION answers object", nodeId, <<>>)
  ELSE IF node.answers.keys = <<>>
  THEN Err("QUESTION answers empty", nodeId, <<>>)
  ELSE FirstError(
    [i \in 1..Len(node.answers.keys) |->
      LET answerKey  == node.answers.keys[i]
          nextNodeId == node.answers.at[answerKey]
      IN IF nextNodeId = ""
         THEN Err("QUESTION answer not a node id", nodeId, <<answerKey>>)
         ELSE IF nextNodeId \notin Range(allNodeIds)
         THEN Err("QUESTION answer non-existent", nodeId,
                  <<answerKey, nextNodeId>>)
         ELSE Ok])

validateSafetyNode(nodeId, node, allNodeIds) ==
  IF NoString(node, "text") THEN Err("SAFETY text", nodeId, <<>>)
  ELSE IF NoString(node, "next")
  THEN Err("SAFETY next, not nextNode", nodeId, <<>>)
  ELSE IF node.next \notin Range(allNodeIds)
  THEN Err("SAFETY next non-existent", nodeId, <<node.next>>)
  ELSE Ok

\* typeof x !== 'number' for a field holding a value
NoNumber(r, f) == f \notin DOMAIN r \/ r[f].k # "number"

\* a validateBranch that does not probe the condition
validateBranchUnprobed(nodeId, i, branch, allNodeIds) ==
  IF "condition" \notin DOMAIN branch \/ branch.condition = <<>>
  THEN Err("MEASURE branch condition", nodeId, <<ToString(i)>>)
  ELSE IF NoString(branch, "next")
  THEN Err("MEASURE branch next", nodeId, <<ToString(i)>>)
  ELSE IF branch.next \notin Range(allNodeIds)
  THEN Err("MEASURE branch next non-existent", nodeId, <<ToString(i)>>)
  ELSE Ok

validateBranch(nodeId, i, branch, allNodeIds) ==
  IF "condition" \notin DOMAIN branch \/ branch.condition = <<>>
  THEN Err("MEASURE branch condition", nodeId, <<ToString(i)>>)
  ELSE IF NoString(branch, "next")
  THEN Err("MEASURE branch next", nodeId, <<ToString(i)>>)
  ELSE IF branch.next \notin Range(allNodeIds)
  THEN Err("MEASURE branch next non-existent", nodeId, <<ToString(i)>>)
  ELSE IF ConditionThrows(branch.condition)
  THEN Err("MEASURE branch invalid condition", nodeId, <<ToString(i)>>)
  ELSE Ok

validateMeasureNode(nodeId, node, allNodeIds) ==
  IF NoString(node, "text") THEN Err("MEASURE text", nodeId, <<>>)
  ELSE IF "validRange" \notin DOMAIN node
  THEN Err("MEASURE validRange", nodeId, <<>>)
  ELSE IF NoNumber(node.validRange, "min")
  THEN Err("MEASURE validRange.min", nodeId, <<>>)
  ELSE IF NoNumber(node.validRange, "max")
  THEN Err("MEASURE validRange.max", nodeId, <<>>)
  ELSE IF node.validRange.min.n >= node.validRange.max.n
  THEN Err("MEASURE min must be less than max", nodeId, <<>>)
  ELSE IF "branches" \notin DOMAIN node \/ node.branches = <<>>
  THEN Err("MEASURE branches", nodeId, <<>>)
  ELSE FirstError(
    [i \in 1..Len(node.branches) |->
      validateBranch(nodeId, i - 1, node.branches[i], allNodeIds)])

\* artifact values: a string is a sequence of tokens, an array a sequence
\* of values
StrA(tokens) == [k |-> "string", s |-> tokens]
ArrA(items) == [k |-> "array", items |-> items]
NullA == [k |-> "null"]

RequiredFields ==
  <<"flow_id", "flow_version", "issue", "stop_reason",
    "last_confirmed_state", "safety_notes">>

validateStringArray(nodeId, artifact, field) ==
  IF ~Has(artifact, field) THEN Ok
  ELSE IF artifact.at[field].k # "array"
  THEN Err("artifact must be an array", nodeId, <<field>>)
  ELSE IF \E i \in 1..Len(artifact.at[field].items) :
            artifact.at[field].items[i].k # "string"
  THEN Err("artifact must contain only strings", nodeId, <<field>>)
  ELSE Ok

validateArtifact(nodeId, artifact) ==
  FirstError(
    [i \in 1..Len(RequiredFields) |->
       LET field == RequiredFields[i]
       IN IF ~Has(artifact, field) \/ artifact.at[field].k = "null"
          THEN Err("artifact missing required field", nodeId, <<field>>)
          ELSE IF artifact.at[field].k # "string"
          THEN Err("artifact field must be a string", nodeId, <<field>>)
          ELSE Ok]
    \o <<validateStringArray(nodeId, artifact, "stabilization_actions"),
         validateStringArray(nodeId, artifact, "recommendations"),
         IF Has(artifact, "notes") /\ artifact.at["notes"].k # "string"
         THEN Err("artifact notes must be a string", nodeId, <<"notes">>)
         ELSE Ok>>)

validateTerminalNode(nodeId, node) ==
  IF "result" \notin DOMAIN node \/ node.result = <<>>
  THEN Err("TERMINAL result", nodeId, <<>>)
  ELSE IF "artifact" \notin DOMAIN node
  THEN Err("TERMINAL artifact object", nodeId, <<>>)
  ELSE validateArtifact(nodeId, node.artifact)

AllowedTypes == {"QUESTION", "SAFETY", "MEASURE", "TERMINAL"}

validateNode(nodeId, node, allNodeIds) ==
  IF NoString(node, "type") THEN Err("missing type", nodeId, <<>>)
  ELSE IF node.type \notin AllowedTypes
  THEN Err("unknown type", nodeId, <<node.type>>)
  ELSE CASE node.type = "QUESTION" ->
              validateQuestionNode(nodeId, node, allNodeIds)
         [] node.type = "SAFETY" ->
              validateSafetyNode(nodeId, node, allNodeIds)
         [] node.type = "MEASURE" ->
              validateMeasureNode(nodeId, node, allNodeIds)
         [] node.type = "TERMINAL" ->
              validateTerminalNode(nodeId, node)

validateNodes(nodes) ==
  FirstError([i \in 1..Len(nodes.keys) |->
                validateNode(nodes.keys[i], nodes.at[nodes.keys[i]],
                             nodes.keys)])

\* a Successors that follows only the first answer of a Question
SuccessorsFirstAnswer(node) ==
  CASE node.type = "QUESTION" -> <<node.answers.at[node.answers.keys[1]]>>
    [] node.type = "SAFETY"  -> <<node.next>>
    [] node.type = "MEASURE" ->
         [i \in 1..Len(node.branches) |-> node.branches[i].next]
    [] OTHER -> <<>>

\* the node ids a node pushes on the traversal queue
Successors(node) ==
  CASE node.type = "QUESTION" ->
         [i \in 1..Len(node.answers.keys) |->
            node.answers.at[node.answers.keys[i]]]
    [] node.type = "SAFETY"  -> <<node.next>>
    [] node.type = "MEASURE" ->
         [i \in 1..Len(node.branches) |-> node.branches[i].next]
    [] OTHER -> <<>>

\* the while loop of validateReachability: the set visited when the queue
\* is empty
RECURSIVE Traverse(_, _, _)
Traverse(queue, visited, nodes) ==
  IF queue = <<>> THEN visited
  ELSE LET nodeId == Head(queue)
       IN IF nodeId \in visited THEN Traverse(Tail(queue), visited, nodes)
          ELSE IF ~Has(nodes, nodeId)
          THEN Traverse(Tail(queue), visited \cup {nodeId}, nodes)
          ELSE Traverse(Tail(queue) \o Successors(nodes.at[nodeId]),
                        visited \cup {nodeId}, nodes)

\* a traversal that tests visited when it pushes a node id, not when it
\* takes one from the queue
RECURSIVE TraverseOrderCheckOnPush(_, _, _)
TraverseOrderCheckOnPush(queue, visited, nodes) ==
  IF queue = <<>> THEN <<>>
  ELSE LET nodeId == Head(queue)
           seen   == visited \cup {nodeId}
       IN IF ~Has(nodes, nodeId)
          THEN <<nodeId>> \o TraverseOrderCheckOnPush(Tail(queue), seen, nodes)
          ELSE <<nodeId>> \o
               TraverseOrderCheckOnPush(
                 Tail(queue) \o SelectSeq(Successors(nodes.at[nodeId]),
                                          LAMBDA id : id \notin seen),
                 seen, nodes)

\* the while loop of validateReachability: the node ids in the order in
\* which visited.add takes them
RECURSIVE TraverseOrder(_, _, _)
TraverseOrder(queue, visited, nodes) ==
  IF queue = <<>> THEN <<>>
  ELSE LET nodeId == Head(queue)
       IN IF nodeId \in visited THEN TraverseOrder(Tail(queue), visited, nodes)
          ELSE IF ~Has(nodes, nodeId)
          THEN <<nodeId>> \o
               TraverseOrder(Tail(queue), visited \cup {nodeId}, nodes)
          ELSE <<nodeId>> \o
               TraverseOrder(Tail(queue) \o Successors(nodes.at[nodeId]),
                             visited \cup {nodeId}, nodes)

validateReachability(startNode, nodes) ==
  LET visited     == Traverse(<<startNode>>, {}, nodes)
      unreachable == SelectSeq(nodes.keys, LAMBDA id : id \notin visited)
  IN IF unreachable # <<>> THEN Err("Unreachable nodes", "", unreachable)
     ELSE Ok

validateHasTerminal(nodes) ==
  IF \E id \in Range(nodes.keys) : nodes.at[id].type = "TERMINAL"
  THEN Ok ELSE Err("no TERMINAL node", "", <<>>)

\* FlowValidator.validate: the four checks in order, the first error thrown
validate(raw) ==
  IF ~validateTopLevel(raw).ok THEN validateTopLevel(raw)
  ELSE IF ~validateNodes(raw.nodes).ok THEN validateNodes(raw.nodes)
  ELSE IF ~validateReachability(raw.startNode, raw.nodes).ok
  THEN validateReachability(raw.startNode, raw.nodes)
  ELSE validateHasTerminal(raw.nodes)

(***************************************************************************)
(* Flow documents                                                          *)
(***************************************************************************)
Artifact(flowId, flowVersion, specific) ==
  Obj(<< <<"flow_id", StrA(<<flowId>>)>>,
         <<"flow_version", StrA(<<flowVersion>>)>>,
         <<"issue", StrA(<<"No Power">>)>>,
         <<"stop_reason", StrA(<<"Reached terminal">>)>>,
         <<"last_confirmed_state", StrA(<<"Confirmed">>)>>,
         <<"safety_notes", StrA(<<"Wear gloves">>)>> >> \o specific)

\* {{nodeId.value}}
Ref(nodeId) == <<"{{", nodeId, ".", "value", "}}">>

Question(answers) ==
  [type |-> "QUESTION", text |-> "question", answers |-> Obj(answers)]

Safety(next) == [type |-> "SAFETY", text |-> "warning", next |-> next]

Measure(min, max, branches) ==
  [type |-> "MEASURE", text |-> "measure",
   validRange |-> [min |-> NumV(min), max |-> NumV(max)],
   branches |-> branches]

Terminal(result, artifact) ==
  [type |-> "TERMINAL", result |-> result, artifact |-> artifact]

Branch(condition, next) == [condition |-> condition, next |-> next]

Lt118 == <<"<", " ", "1", "1", ".", "8">>
Ge118 == <<">", "=", " ", "1", "1", ".", "8">>
Gt12  == <<">", "1", "2">>

Flow(flowId, startNode, nodes) ==
  [flowId |-> flowId, flowVersion |-> "2.0", startNode |-> startNode,
   nodes |-> Obj(nodes)]

\* the flow of the documented scenario: q1 -> s1 -> m1 -> t1 | t2
FlowScenario ==
  Flow("scenario", "q1",
    << <<"q1", Question(<< <<"yes", "s1">>, <<"no", "t1">> >>)>>,
       <<"s1", Safety("m1")>>,
       <<"m1", Measure(100, 150, <<Branch(Lt118, "t1"), Branch(Ge118, "t2")>>)>>,
       <<"t1", Terminal(<<"Battery low">>,
                 Artifact("scenario", "2.0",
                   << <<"power_source", StrA(Ref("q1"))>>,
                      <<"voltage_value", StrA(<<"low">>)>>,
                      <<"recommendations", ArrA(<<StrA(<<"Charge">>)>>)>> >>))>>,
       <<"t2", Terminal(<<"Battery ok">>,
                 Artifact("scenario", "2.0",
                   << <<"power_source", StrA(Ref("q1"))>>,
                      <<"voltage_value", StrA(Ref("m1"))>>,
                      <<"recommendations", ArrA(<<>>)>> >>))>> >>)

\* a flow whose start node is its Terminal
FlowTerminalOnly ==
  Flow("terminal-only", "t1",
    << <<"t1", Terminal(<<"Nothing to do">>,
                 Artifact("terminal-only", "2.0", <<>>))>> >>)

\* a flow with a cycle q1 -> q2 -> q1 and a template that mixes text and a
\* reference
FlowCycle ==
  Flow("cycle", "q1",
    << <<"q1", Question(<< <<"yes", "q2">>, <<"no", "t1">> >>)>>,
       <<"q2", Question(<< <<"yes", "q1">> >>)>>,
       <<"t1", Terminal(<<"Done">>,
                 Artifact("cycle", "2.0",
                   << <<"notes", StrA(<<"Answer: ">> \o Ref("q1"))>>,
                      <<"second", StrA(Ref("q2"))>> >>))>> >>)

\* a Measure start node whose branches overlap above 12 and leave the
\* values below 11.8 without a branch
FlowMeasure ==
  Flow("measure", "m1",
    << <<"m1", Measure(100, 150, <<Branch(Gt12, "t1"), Branch(Ge118, "t2")>>)>>,
       <<"t1", Terminal(<<"High">>,
                 Artifact("measure", "2.0",
                   << <<"voltage_value", StrA(Ref("m1"))>> >>))>>,
       <<"t2", Terminal(<<"Normal">>,
                 Artifact("measure", "1.0",
                   << <<"voltage_value", StrA(Ref("m1"))>> >>))>> >>)

\* rejected flows: an unreachable node, a dangling reference
FlowUnreachable ==
  Flow("unreachable", "s1",
    << <<"s1", Safety("t1")>>,
       <<"q1", Question(<< <<"yes", "t1">> >>)>>,
       <<"t1", Terminal(<<"Done">>, Artifact("unreachable", "2.0", <<>>))>> >>)

FlowDangling ==
  Flow("dangling", "q1",
    << <<"q1", Question(<< <<"yes", "t1">>, <<"no", "zz">> >>)>>,
       <<"t1", Terminal(<<"Done">>, Artifact("dangling", "2.0", <<>>))>> >>)

\* a flow whose Terminal template carries references in universal and in
\* flow-specific fields, and in which q1 can be answered twice
FlowRefs ==
  Flow("refs", "q1",
    << <<"q1", Question(<< <<"yes", "s1">>, <<"no", "q2">> >>)>>,
       <<"s1", Safety("q2")>>,
       <<"q2", Question(<< <<"yes", "q1">>, <<"no", "t1">> >>)>>,
       <<"t1", Terminal(<<"Done">>,
                 Obj(<< <<"flow_id", StrA(<<"refs">>)>>,
                        <<"flow_version", StrA(<<"2.0">>)>>,
                        <<"issue", StrA(<<"Issue of ">> \o Ref("q1"))>>,
                        <<"stop_reason", StrA(<<"Source: ">> \o Ref("q1"))>>,
                        <<"last_confirmed_state", StrA(Ref("q2"))>>,
                        <<"safety_notes", StrA(<<"Acknowledged: ">> \o Ref("s1"))>>,
                        <<"power_source", StrA(Ref("q1"))>>,
                        <<"acknowledged", StrA(Ref("s1"))>>,
                        <<"notes", StrA(Ref("q1") \o <<" then ">> \o Ref("q2"))>>,
                        <<"recommendations", ArrA(<<StrA(<<"Charge">>)>>)>>
                     >>))>> >>)

Flows ==
  {FlowScenario, FlowTerminalOnly, FlowCycle, FlowMeasure,
   FlowUnreachable, FlowDangling}

(***************************************************************************)
(* StorageService                                                          *)
(* The store is the slot of the session state and the history list.  While *)
(* a handler runs it also carries the number of writes the handler has     *)
(* issued, the fault the environment injects into this call (the write     *)
(* that throws, or the write after which the process is killed) and how    *)
(* far the handler got.                                                    *)
(***************************************************************************)
Null == [null |-> TRUE]

NoFault == [kind |-> "none", at |-> 0]
Fail(n) == [kind |-> "fail", at |-> n]
Kill(n) == [kind |-> "kill", at |-> n]

Store(s, h, fault) ==
  [slot |-> s, history |-> h, writes |-> 0, fault |-> fault,
   status |-> IF fault = Kill(0) THEN "killed" ELSE "run"]

\* storage.set(key, json): throws, commits, or commits and the process dies
Set(st, key, json) ==
  LET n == st.writes + 1
  IN IF st.fault = Fail(n)
     THEN [st EXCEPT !.writes = n, !.status = "failed"]
     ELSE [st EXCEPT ![key] = json, !.writes = n,
                     !.status = IF st.fault = Kill(n) THEN "killed" ELSE "run"]

\* JSON.parse(JSON.stringify(x)) on a node id: a function value is dropped,
\* and reading the dropped property gives undefined
JsonId(id) == IF id = FnObjectStr THEN UndefinedStr ELSE id

JsonState(state) ==
  [f \in DOMAIN state |->
     IF f \in {"current_node_id", "stop_node_id", "terminal_node_id"}
     THEN JsonId(state[f]) ELSE state[f]]

saveSessionState(st, state) == Set(st, "slot", JsonState(state))

\* a loadSessionState that gives the state back without its event log
loadSessionStateNoEvents(s) ==
  IF "events" \in DOMAIN s THEN [s EXCEPT !.events = <<>>] ELSE s

\* what the slot holds when its text is no JSON
Unreadable == [unreadable |-> TRUE]

\* JSON.parse of the stored text; null when it throws
loadSessionState(s) == IF s = Unreadable THEN Null ELSE s

\* a saveSessionSummary that appends without looking for the session id
saveSessionSummaryAlways(st, summary) ==
  Set(st, "history", Append(st.history, JsonState(summary)))

saveSessionSummary(st, summary) ==
  IF \E i \in 1..Len(st.history) :
       st.history[i].session_id = summary.session_id
  THEN st
  ELSE Set(st, "history", Append(st.history, JsonState(summary)))

(***************************************************************************)
(* FlowEngine                                                              *)
(* A handler returns Res(store, state, err): the store it leaves, the      *)
(* state it returns when err is "none", and otherwise the error it throws  *)
(* ("killed" when the process died inside it).                             *)
(***************************************************************************)
Res(st, ret, err) == [st |-> st, ret |-> ret, err |-> err]

\* what a handler whose write did not return normally gives back
Broken(st) == Res(st, Null, IF st.status = "killed" THEN "killed" ELSE "storage")

resolveNodes(raw) == raw.nodes

NoNode == [type |-> UndefinedStr]

\* this.nodes[id]
NodeAt(nodes, id) == IF Has(nodes, id) THEN nodes.at[id] ELSE NoNode

\* q.answers[answerKey]: own keys, then Object.prototype
AnswerAt(answers, answerKey) ==
  IF Has(answers, answerKey) THEN answers.at[answerKey]
  ELSE IF answerKey \in ObjectProtoKeys THEN FnObjectStr
  ELSE UndefinedStr

\* !x for a string or undefined
Falsy(x) == x \in {UndefinedStr, ""}

startState(raw, id, t) ==
  [flow_id |-> raw.flowId, flow_version |-> raw.flowVersion,
   session_id |-> id, started_at |-> t,
   current_node_id |-> raw.startNode, events |-> <<>>,
   completed |-> FALSE, stopped |-> FALSE]

\* a startSession that returns the new state without persisting it
startSessionUnsaved(st, raw, id, t) ==
  Res(st, startState(raw, id, t), "none")

startSession(st, raw, id, t) ==
  LET sessionState == startState(raw, id, t)
      st1 == saveSessionState(st, sessionState)
  IN IF st1.status # "run" THEN Broken(st1)
     ELSE Res(st1, sessionState, "none")

\* a resumeSession that does not compare the flow id
resumeSessionAnyFlow(raw, s) ==
  LET session == loadSessionState(s)
  IN IF session = Null THEN Null
     ELSE IF session.completed \/ session.stopped THEN Null
     ELSE session

resumeSession(raw, s) ==
  LET session == loadSessionState(s)
  IN IF session = Null THEN Null
     ELSE IF session.flow_id # raw.flowId THEN Null
     ELSE IF session.completed \/ session.stopped THEN Null
     ELSE session

\* a validateResponse whose range excludes its two bounds
validateResponseExclusive(node, value) ==
  CASE node.type = "QUESTION" ->
         IF Falsy(AnswerAt(node.answers, String(value)))
         THEN "Invalid answer" ELSE "ok"
    [] node.type = "MEASURE" ->
         IF isNaN(Number(value)) THEN "requires a numeric value"
         ELSE IF Number(value).n <= node.validRange.min.n
                 \/ Number(value).n >= node.validRange.max.n
         THEN "outside valid range" ELSE "ok"
    [] OTHER -> "ok"

validateResponse(node, value) ==
  CASE node.type = "QUESTION" ->
         IF Falsy(AnswerAt(node.answers, String(value)))
         THEN "Invalid answer" ELSE "ok"
    [] node.type = "MEASURE" ->
         IF isNaN(Number(value)) THEN "requires a numeric value"
         ELSE IF Number(value).n < node.validRange.min.n
                 \/ Number(value).n > node.validRange.max.n
         THEN "outside valid range" ELSE "ok"
    [] OTHER -> "ok"

\* a generateSummary whose result carries the session id
generateSummaryWithId(st, sessionState) ==
  saveSessionSummary(st,
    [flow_id |-> sessionState.flow_id,
     flow_version |-> sessionState.flow_version,
     session_id |-> sessionState.session_id,
     started_at |-> sessionState.started_at,
     completed_at |-> sessionState.completed_at,
     events |-> sessionState.events,
     terminal_node_id |-> sessionState.terminal_node_id,
     result |-> Append(sessionState.result,
                       ToString(sessionState.session_id)),
     artifact |-> sessionState.artifact,
     stopped |-> FALSE])

generateSummary(st, sessionState) ==
  saveSessionSummary(st,
    [flow_id |-> sessionState.flow_id,
     flow_version |-> sessionState.flow_version,
     session_id |-> sessionState.session_id,
     started_at |-> sessionState.started_at,
     completed_at |-> sessionState.completed_at,
     events |-> sessionState.events,
     terminal_node_id |-> sessionState.terminal_node_id,
     result |-> sessionState.result,
     artifact |-> sessionState.artifact,
     stopped |-> FALSE])

\* a processTerminalNode that records its own Terminal event after the
\* event it is handed
processTerminalNodeTwoEvents(st, sessionState, terminalNode, event) ==
  LET completedState ==
        [events |-> sessionState.events \o
                    <<event, [event EXCEPT !.value = [k |-> "boolean",
                                                      b |-> TRUE]]>>,
         completed |-> TRUE, stopped |-> FALSE,
         completed_at |-> event.timestamp,
         terminal_node_id |-> sessionState.current_node_id,
         result |-> terminalNode.result,
         artifact |-> terminalNode.artifact] @@ sessionState
      st1 == saveSessionState(st, completedState)
      st2 == generateSummary(st1, completedState)
  IN IF st1.status # "run" THEN Broken(st1)
     ELSE IF st2.status # "run" THEN Broken(st2)
     ELSE Res(st2, completedState, "none")

processTerminalNode(st, sessionState, terminalNode, event) ==
  LET completedState ==
        [events |-> Append(sessionState.events, event),
         completed |-> TRUE, stopped |-> FALSE,
         completed_at |-> event.timestamp,
         terminal_node_id |-> sessionState.current_node_id,
         result |-> terminalNode.result,
         artifact |-> terminalNode.artifact] @@ sessionState
      st1 == saveSessionState(st, completedState)
      st2 == generateSummary(st1, completedState)
  IN IF st1.status # "run" THEN Broken(st1)
     ELSE IF st2.status # "run" THEN Broken(st2)
     ELSE Res(st2, completedState, "none")

\* the switch of processResponse: the next node id, falsy when the node has
\* none for the value
nextNodeId(node, value) ==
  CASE node.type = "QUESTION" -> AnswerAt(node.answers, String(value))
    [] node.type = "SAFETY"   -> node.next
    [] node.type = "MEASURE"  ->
         IF isNaN(Number(value)) THEN UndefinedStr
         ELSE resolveMeasureBranch(node.branches, Number(value).n)
    [] OTHER -> UndefinedStr

Event(nodeId, type, value, t) ==
  [node_id |-> nodeId, type |-> type, value |-> value, timestamp |-> t]

\* a processResponse that persists the event before it validates the response
processResponseSaveFirst(st, nodes, sessionState, value, t) ==
  LET currentNode == NodeAt(nodes, sessionState.current_node_id)
      event == Event(sessionState.current_node_id, currentNode.type, value, t)
      next  == nextNodeId(currentNode, value)
      early == saveSessionState(st,
                 [events |-> Append(sessionState.events, event)] @@ sessionState)
      updatedState ==
        [current_node_id |-> next,
         events |-> Append(sessionState.events, event)] @@ sessionState
      st1 == saveSessionState(early, updatedState)
  IN IF st.status # "run" THEN Broken(st)
     ELSE IF currentNode = NoNode THEN Res(st, Null, "Node not found")
     ELSE IF validateResponse(currentNode, value) # "ok"
     THEN Res(early, Null, validateResponse(currentNode, value))
     ELSE IF currentNode.type = "TERMINAL"
     THEN processTerminalNode(st, sessionState, currentNode, event)
     ELSE IF Falsy(next)
     THEN Res(early, Null, "no branch matched")
     ELSE IF st1.status # "run" THEN Broken(st1)
     ELSE IF NodeAt(nodes, next).type = "TERMINAL"
     THEN processTerminalNode(st1, updatedState, NodeAt(nodes, next),
                              Event(next, "TERMINAL", BoolV(TRUE), t))
     ELSE Res(st1, updatedState, "none")

\* a processResponse that puts the new event in front of the earlier ones
processResponseNewestFirst(st, nodes, sessionState, value, t) ==
  LET currentNode == NodeAt(nodes, sessionState.current_node_id)
      event == Event(sessionState.current_node_id, currentNode.type, value, t)
      next  == nextNodeId(currentNode, value)
      updatedState ==
        [current_node_id |-> next,
         events |-> <<event>> \o sessionState.events] @@ sessionState
      st1 == saveSessionState(st, updatedState)
  IN IF st.status # "run" THEN Broken(st)
     ELSE IF currentNode = NoNode THEN Res(st, Null, "Node not found")
     ELSE IF validateResponse(currentNode, value) # "ok"
     THEN Res(st, Null, validateResponse(currentNode, value))
     ELSE IF currentNode.type = "TERMINAL"
     THEN processTerminalNode(st, sessionState, currentNode, event)
     ELSE IF Falsy(next)
     THEN Res(st, Null, IF currentNode.type = "MEASURE"
                        THEN "no branch matched" ELSE "no answer")
     ELSE IF st1.status # "run" THEN Broken(st1)
     ELSE IF NodeAt(nodes, next).type = "TERMINAL"
     THEN processTerminalNode(st1, updatedState, NodeAt(nodes, next),
                              Event(next, "TERMINAL", BoolV(TRUE), t))
     ELSE Res(st1, updatedState, "none")

processResponse(st, nodes, sessionState, value, t) ==
  LET currentNode == NodeAt(nodes, sessionState.current_node_id)
      event == Event(sessionState.current_node_id, currentNode.type, value, t)
      next  == nextNodeId(currentNode, value)
      updatedState ==
        [current_node_id |-> next,
         events |-> Append(sessionState.events, event)] @@ sessionState
      st1 == saveSessionState(st, updatedState)
  IN IF st.status # "run" THEN Broken(st)
     ELSE IF currentNode = NoNode THEN Res(st, Null, "Node not found")
     ELSE IF validateResponse(currentNode, value) # "ok"
     THEN Res(st, Null, validateResponse(currentNode, value))
     ELSE IF currentNode.type = "TERMINAL"
     THEN processTerminalNode(st, sessionState, currentNode, event)
     ELSE IF Falsy(next)
     THEN Res(st, Null, IF currentNode.type = "MEASURE"
                        THEN "no branch matched" ELSE "no answer")
     ELSE IF st1.status # "run" THEN Broken(st1)
     ELSE IF NodeAt(nodes, next).type = "TERMINAL"
     THEN processTerminalNode(st1, updatedState, NodeAt(nodes, next),
                              Event(next, "TERMINAL", BoolV(TRUE), t))
     ELSE Res(st1, updatedState, "none")

(***************************************************************************)
(* STOP: the partial artifact                                              *)
(***************************************************************************)
\* getTemplateArtifact: the artifact of the first Terminal in Object.values
\* order, or the fallback when the flow has none
getTemplateArtifact(raw, nodes) ==
  LET terminals == SelectSeq(nodes.keys,
                     LAMBDA id : nodes.at[id].type = "TERMINAL")
  IN IF terminals # <<>> THEN nodes.at[terminals[1]].artifact
     ELSE Obj(<< <<"flow_id", StrA(<<raw.flowId>>)>>,
                 <<"flow_version", StrA(<<raw.flowVersion>>)>>,
                 <<"issue", StrA(<<>>)>>,
                 <<"stop_reason", StrA(<<>>)>>,
                 <<"last_confirmed_state", StrA(<<>>)>>,
                 <<"safety_notes", StrA(<<>>)>> >>)

\* eventMap.get(nodeId): the value of the last event of the node
HasEvent(events, nodeId) == \E i \in 1..Len(events) : events[i].node_id = nodeId

\* an eventMap that keeps the first value recorded for a node
EventValueFirst(events, nodeId) ==
  LET i == CHOOSE i \in 1..Len(events) :
             /\ events[i].node_id = nodeId
             /\ \A j \in 1..(i - 1) : events[j].node_id # nodeId
  IN events[i].value

EventValue(events, nodeId) ==
  LET i == CHOOSE i \in 1..Len(events) :
             /\ events[i].node_id = nodeId
             /\ \A j \in (i + 1)..Len(events) : events[j].node_id # nodeId
  IN events[i].value

\* expr.trim().split('.')[0] on the tokens between {{ and }}
RefNodeId(expr) ==
  LET e == Trim(expr) IN IF e = <<>> \/ e[1] = "." THEN "" ELSE e[1]

\* the index of the first }} after position i, 0 when there is none
ClosingAfter(tokens, i) ==
  IF \E j \in (i + 1)..Len(tokens) : tokens[j] = "}}"
  THEN CHOOSE j \in (i + 1)..Len(tokens) :
         /\ tokens[j] = "}}"
         /\ \A m \in (i + 1)..(j - 1) : tokens[m] # "}}"
  ELSE 0

\* templateValue.replace(/\{\{([^}]+)\}\}/g, ...)
RECURSIVE ReplaceRefs(_, _)
ReplaceRefs(tokens, events) ==
  IF tokens = <<>> THEN <<>>
  ELSE LET j == ClosingAfter(tokens, 1)
       IN IF Head(tokens) = "{{" /\ j > 2
          THEN LET nodeId == RefNodeId(SubSeq(tokens, 2, j - 1))
               IN <<IF HasEvent(events, nodeId)
                    THEN String(EventValue(events, nodeId))
                    ELSE "Unknown">>
                  \o ReplaceRefs(SubSeq(tokens, j + 1, Len(tokens)), events)
          ELSE <<Head(tokens)>> \o ReplaceRefs(Tail(tokens), events)

buildLastConfirmedState(sessionState) ==
  IF sessionState.events = <<>>
  THEN <<"Stopped at: ", sessionState.current_node_id,
         ". No responses recorded.">>
  ELSE <<"Last answered: ", Last(sessionState.events).node_id, " = ",
         String(Last(sessionState.events).value), ". ",
         "Stopped at: ", sessionState.current_node_id, ".">>

\* artifact[key] = value on an ordered map
Put(o, key, value) ==
  [keys |-> IF Has(o, key) THEN o.keys ELSE Append(o.keys, key),
   at   |-> [k \in Range(o.keys) \cup {key} |->
               IF k = key THEN value ELSE o.at[k]]]

KeptFields == {"flow_id", "flow_version", "issue", "safety_notes"}

\* a buildStopArtifact that keeps the template's values instead of
\* defaulting them
buildStopArtifactKeepTemplate(raw, nodes, sessionState) ==
  LET template == getTemplateArtifact(raw, nodes)
      stopped ==
        Put(Put(Put(template,
          "stop_reason",
            StrA(<<"User stopped diagnostic at node: ",
                   sessionState.current_node_id>>)),
          "last_confirmed_state",
            StrA(buildLastConfirmedState(sessionState))),
          "safety_notes", StrA(<<>>))
  IN [keys |-> stopped.keys,
      at   |-> [key \in Range(stopped.keys) |->
                  IF /\ Has(template, key)
                     /\ template.at[key].k = "string"
                     /\ "{{" \in Range(template.at[key].s)
                  THEN StrA(ReplaceRefs(template.at[key].s,
                                        sessionState.events))
                  ELSE stopped.at[key]]]

buildStopArtifact(raw, nodes, sessionState) ==
  LET template == getTemplateArtifact(raw, nodes)
      defaulted ==
        [keys |-> template.keys,
         at   |-> [key \in Range(template.keys) |->
                     IF key \in KeptFields THEN template.at[key]
                     ELSE IF template.at[key].k = "array" THEN ArrA(<<>>)
                     ELSE StrA(<<"Unknown">>)]]
      stopped ==
        Put(Put(Put(defaulted,
          "stop_reason",
            StrA(<<"User stopped diagnostic at node: ",
                   sessionState.current_node_id>>)),
          "last_confirmed_state",
            StrA(buildLastConfirmedState(sessionState))),
          "safety_notes", StrA(<<>>))
  IN [keys |-> stopped.keys,
      at   |-> [key \in Range(stopped.keys) |->
                  IF /\ Has(template, key)
                     /\ template.at[key].k = "string"
                     /\ "{{" \in Range(template.at[key].s)
                  THEN StrA(ReplaceRefs(template.at[key].s,
                                        sessionState.events))
                  ELSE stopped.at[key]]]

generateStopSummary(st, sessionState, partialArtifact) ==
  saveSessionSummary(st,
    [flow_id |-> sessionState.flow_id,
     flow_version |-> sessionState.flow_version,
     session_id |-> sessionState.session_id,
     started_at |-> sessionState.started_at,
     completed_at |-> sessionState.stopped_at,
     events |-> sessionState.events,
     terminal_node_id |-> sessionState.stop_node_id,
     result |-> <<"Diagnostic stopped at: ", sessionState.current_node_id>>,
     artifact |-> partialArtifact,
     stopped |-> TRUE])

stopSession(st, raw, nodes, sessionState, t) ==
  LET partialArtifact == buildStopArtifact(raw, nodes, sessionState)
      stoppedState ==
        [stopped |-> TRUE, stopped_at |-> t,
         stop_node_id |-> sessionState.current_node_id,
         partial_artifact |-> partialArtifact] @@ sessionState
      st1 == saveSessionState(st, stoppedState)
      st2 == generateStopSummary(st1, stoppedState, partialArtifact)
  IN IF st.status # "run" THEN Broken(st)
     ELSE IF st1.status # "run" THEN Broken(st1)
     ELSE IF st2.status # "run" THEN Broken(st2)
     ELSE Res(st2, stoppedState, "none")

(***************************************************************************)
(* The state machine                                                       *)
(*   flow     the flow document handed to the constructor                  *)
(*   engine   the FlowEngine object: none, ready, or failed to construct   *)
(*   slot     storage key session_state (Null when absent)                 *)
(*   history  storage key session_history                                  *)
(*   held     the session states the caller holds in memory, by session id *)
(*   inputs   per session, the calls that returned normally (bookkeeping)  *)
(*   marks    per session, what happened around it (bookkeeping)           *)
(*   nextId   the next session id generateSessionId hands out              *)
(*   now      the wall clock                                               *)
(*   last     the outcome of the last call                                 *)
(***************************************************************************)
Sessions == 1..MaxSessions

Times == 0..MaxTime

\* "yes" and "no" are answer keys, "constructor" is no answer key but a name
\* every object inherits, true is 1 as a number, 11.5 and 12 are in range
Values ==
  {StrV("yes"), StrV("no"), StrV("constructor"), BoolV(TRUE),
   NumV(115), NumV(120)}

Faults == {Fail(1), Fail(2), Fail(3), Kill(0), Kill(1), Kill(2), Kill(3)}

NoMarks ==
  [resumed |-> FALSE, reloaded |-> FALSE, crossed |-> FALSE, extra |-> 0]

Finished(state) == state.completed \/ state.stopped

\* a constructor that keeps the engine although validation failed
constructorUnchecked(raw) ==
  [state |-> "ready", verdict |-> validate(raw)]

\* new FlowEngine(rawFlow)
constructor(raw) ==
  [state |-> IF validate(raw).ok THEN "ready" ELSE "failed",
   verdict |-> validate(raw)]

NoEngine == [state |-> "none", verdict |-> Ok]

InitWith(F) ==
  /\ flow \in F
  /\ engine = NoEngine
  /\ slot = Null
  /\ history = <<>>
  /\ held = [i \in Sessions |-> Null]
  /\ inputs = [i \in Sessions |-> <<>>]
  /\ marks = [i \in Sessions |-> NoMarks]
  /\ nextId = 1
  /\ now = 0
  /\ last = [op |-> "init", sid |-> 0, err |-> "none"]

Init == InitWith(Flows)

Construct ==
  /\ engine.state = "none"
  /\ engine' = constructor(flow)
  /\ last' = [op |-> "construct", sid |-> 0,
              err |-> IF engine'.state = "ready" THEN "none" ELSE "invalid"]
  /\ UNCHANGED <<flow, slot, history, held, inputs, marks, nextId, now>>

\* what a call leaves in memory: the returned state, the states held before
\* when it threw, nothing when the process died
Keep(sid, res) ==
  CASE res.err = "none"   -> [held EXCEPT ![sid] = res.ret]
    [] res.err = "killed" -> [i \in Sessions |-> Null]
    [] OTHER -> held

Commit(op, sid, entry, res) ==
  /\ slot' = res.st.slot
  /\ history' = res.st.history
  /\ held' = Keep(sid, res)
  /\ engine' = IF res.err = "killed" THEN NoEngine ELSE engine
  /\ inputs' = IF res.err = "none"
               THEN [inputs EXCEPT ![sid] = Append(@, entry)] ELSE inputs
  /\ last' = [op |-> op, sid |-> sid, err |-> res.err]
  /\ UNCHANGED <<flow, now>>

\* calls made on a session that is already completed or stopped are counted
Extra(sid) ==
  IF Finished(held[sid]) THEN [marks EXCEPT ![sid].extra = @ + 1] ELSE marks

InHistory(sid) == \E i \in 1..Len(history) : history[i].session_id = sid

\* startSession, while fewer than most sessions were started; keep says
\* whether the caller keeps the states of earlier sessions in memory (the app
\* replaces its one session state)
Start(keep, most) ==
  /\ engine.state = "ready"
  /\ nextId <= most
  /\ LET res == startSession(Store(slot, history, NoFault), flow, nextId, now)
     IN /\ slot' = res.st.slot
        /\ history' = res.st.history
        /\ held' = [i \in Sessions |->
                      IF i = nextId THEN res.ret
                      ELSE IF keep THEN held[i] ELSE Null]
        /\ inputs' = [i \in Sessions |->
                        IF keep \/ InHistory(i) THEN inputs[i] ELSE <<>>]
        /\ marks' = [i \in Sessions |->
                       IF keep /\ i # nextId /\ held[i] # Null
                       THEN [marks[i] EXCEPT !.crossed = TRUE]
                       ELSE IF keep \/ InHistory(i) THEN marks[i]
                       ELSE NoMarks]
  /\ nextId' = nextId + 1
  /\ last' = [op |-> "startSession", sid |-> nextId, err |-> "none"]
  /\ UNCHANGED <<flow, engine, now>>

\* a resumeSession that removes the session state it has read
ResumeSessionClearing ==
  /\ engine.state = "ready"
  /\ LET session == resumeSession(flow, slot)
     IN /\ held' = IF session = Null THEN held
                   ELSE [held EXCEPT ![session.session_id] = session]
        /\ marks' = IF session = Null THEN marks
                    ELSE [marks EXCEPT
                            ![session.session_id].resumed = TRUE,
                            ![session.session_id].reloaded =
                               @ \/ held[session.session_id] = Null]
        /\ last' = [op |-> "resumeSession",
                    sid |-> IF session = Null THEN 0 ELSE session.session_id,
                    err |-> "none"]
  /\ slot' = Null
  /\ UNCHANGED <<flow, engine, history, inputs, nextId, now>>

ResumeSession ==
  /\ engine.state = "ready"
  /\ LET session == resumeSession(flow, slot)
     IN /\ held' = IF session = Null THEN held
                   ELSE [held EXCEPT ![session.session_id] = session]
        /\ marks' = IF session = Null THEN marks
                    ELSE [marks EXCEPT
                            ![session.session_id].resumed = TRUE,
                            ![session.session_id].reloaded =
                               @ \/ held[session.session_id] = Null]
        /\ last' = [op |-> "resumeSession",
                    sid |-> IF session = Null THEN 0 ELSE session.session_id,
                    err |-> "none"]
  /\ UNCHANGED <<flow, engine, slot, history, inputs, nextId, now>>

\* processResponse on the state held for sid; extra bounds the calls made
\* on a session that is already completed or stopped
Respond(sid, value, fault, extra) ==
  /\ engine.state = "ready"
  /\ held[sid] # Null
  /\ Len(held[sid].events) + 2 <= MaxEvents
  /\ Finished(held[sid]) => marks[sid].extra < extra
  /\ Commit("processResponse", sid, [op |-> "respond", value |-> value],
            processResponse(Store(slot, history, fault),
                            resolveNodes(flow), held[sid], value, now))
  /\ marks' = Extra(sid)
  /\ UNCHANGED nextId

Stop(sid, fault, extra) ==
  /\ engine.state = "ready"
  /\ held[sid] # Null
  /\ Finished(held[sid]) => marks[sid].extra < extra
  /\ Commit("stopSession", sid, [op |-> "stop"],
            stopSession(Store(slot, history, fault), flow,
                        resolveNodes(flow), held[sid], now))
  /\ marks' = Extra(sid)
  /\ UNCHANGED nextId

\* the process is killed between two calls and started again
Restart ==
  /\ engine.state = "ready"
  /\ engine' = NoEngine
  /\ held' = [i \in Sessions |-> Null]
  /\ last' = [op |-> "restart", sid |-> 0, err |-> "none"]
  /\ UNCHANGED <<flow, slot, history, inputs, marks, nextId, now>>

\* the wall clock advances
Tick ==
  /\ now < MaxTime
  /\ now' = now + 1
  /\ UNCHANGED <<flow, engine, slot, history, held, inputs, marks, nextId, last>>

(***************************************************************************)
(* Spec: one session, any response to any state, calls on a finished       *)
(* session included.                                                       *)
(***************************************************************************)
StartSession == Start(FALSE, 1)

ProcessResponse == \E value \in Values : Respond(1, value, NoFault, MaxExtra)

StopSession == Stop(1, NoFault, MaxExtra)

Next ==
  \/ Construct
  \/ StartSession
  \/ ResumeSession
  \/ ProcessResponse
  \/ StopSession
  \/ Restart
  \/ Tick

Spec == Init /\ [][Next]_vars

(***************************************************************************)
(* SpecPair: sessions run one after the other by a caller that holds one   *)
(* session state, as the app does; the clock advances while no session is  *)
(* in progress in memory.                                                  *)
(***************************************************************************)
StartNext == Start(FALSE, MaxSessions)

PairResponse == \E sid \in Sessions, value \in Values :
                  Respond(sid, value, NoFault, 0)

PairStop == \E sid \in Sessions : Stop(sid, NoFault, 0)

IdleTick ==
  /\ \A i \in Sessions : IF held[i] = Null THEN TRUE ELSE Finished(held[i])
  /\ Tick

NextPair ==
  \/ Construct
  \/ StartNext
  \/ ResumeSession
  \/ PairResponse
  \/ PairStop
  \/ Restart
  \/ IdleTick

SpecPair == Init /\ [][NextPair]_vars

(***************************************************************************)
(* SpecFault: one session; the environment may make any storage write of a *)
(* call throw, or kill the process before or after any write.              *)
(***************************************************************************)
FaultyResponse == \E value \in Values, fault \in Faults :
                    Respond(1, value, fault, 0)

FaultyStop == \E fault \in Faults : Stop(1, fault, 0)

NextFault ==
  \/ Construct
  \/ StartSession
  \/ ResumeSession
  \/ ProcessResponse
  \/ StopSession
  \/ FaultyResponse
  \/ FaultyStop

SpecFault == Init /\ [][NextFault]_vars


(***************************************************************************)
(* SpecInterleave: the first session runs while the process may restart    *)
(* and while the caller starts and stops other sessions on the same        *)
(* engine, keeping the first session's state in memory.                    *)
(***************************************************************************)
FirstResponse == \E value \in Values : Respond(1, value, NoFault, 0)

FirstStop == Stop(1, NoFault, 0)

StartOther == nextId > 1 /\ Start(TRUE, MaxSessions)

StopOther == \E sid \in Sessions \ {1} : Stop(sid, NoFault, 0)

NextInterleave ==
  \/ Construct
  \/ StartSession
  \/ ResumeSession
  \/ FirstResponse
  \/ FirstStop
  \/ StartOther
  \/ StopOther
  \/ Restart
  \/ Tick

SpecInterleave == Init /\ [][NextInterleave]_vars

(***************************************************************************)
(* SpecMeasure: one session on the flows that have a Measure node, fed the *)
(* values at, next to and between the bounds of its validRange, as numbers *)
(* and as text.                                                            *)
(***************************************************************************)
MeasureFlows == {FlowScenario, FlowMeasure}

\* 9 and 16 are one unit outside 10..15, 10 and 15 are the bounds, 11.8 is
\* the threshold of the branches, true is 1 as a number, "yes" is no number
MeasureValues ==
  {StrV("yes"), BoolV(TRUE), StrV("15"), NumV(90), NumV(100), NumV(115),
   NumV(118), NumV(120), NumV(150), NumV(160)}

InitMeasure == InitWith(MeasureFlows)

MeasureResponse == \E value \in MeasureValues : Respond(1, value, NoFault, 0)

NextMeasure ==
  \/ Construct
  \/ StartSession
  \/ MeasureResponse
  \/ FirstStop
  \/ Tick

SpecMeasure == InitMeasure /\ [][NextMeasure]_vars

(***************************************************************************)
(* SpecStop: one session, stopped at any point, on the flow whose Terminal *)
(* template carries references.                                            *)
(***************************************************************************)
StopFlows == {FlowRefs}

InitStop == InitWith(StopFlows)

NextStop ==
  \/ Construct
  \/ StartSession
  \/ FirstResponse
  \/ FirstStop
  \/ Tick

SpecStop == InitStop /\ [][NextStop]_vars

(***************************************************************************)
(* SpecResume: sessions run one after the other while the process may be   *)
(* restarted with the same or with another flow and the stored session     *)
(* text may be damaged from outside.                                       *)
(***************************************************************************)
ResumeFlows == {FlowCycle, FlowTerminalOnly}

InitResume == InitWith(ResumeFlows)

\* the process is restarted and constructs its engine on a flow of its
\* choice
Reload ==
  /\ engine.state = "ready"
  /\ engine' = NoEngine
  /\ flow' \in ResumeFlows
  /\ held' = [i \in Sessions |-> Null]
  /\ last' = [op |-> "restart", sid |-> 0, err |-> "none"]
  /\ UNCHANGED <<slot, history, inputs, marks, nextId, now>>

\* the stored session text is damaged while no call runs
Corrupt ==
  /\ slot \notin {Null, Unreadable}
  /\ slot' = Unreadable
  /\ last' = [op |-> "corrupt", sid |-> 0, err |-> "none"]
  /\ UNCHANGED <<flow, engine, history, held, inputs, marks, nextId, now>>

NextResume ==
  \/ Construct
  \/ StartNext
  \/ ResumeSession
  \/ PairResponse
  \/ PairStop
  \/ Reload
  \/ Corrupt

SpecResume == InitResume /\ [][NextResume]_vars

(***************************************************************************)
(* SpecV: the validator on a family of flow documents: every assignment of *)
(* a node variant, well-formed or defective, to each of MaxNodes node ids, *)
(* with an existing or a missing start node, and a catalogue of documents  *)
(* that differ from a well-formed one at the top level.                    *)
(***************************************************************************)
GenIds == SubSeq(<<"a", "b", "c", "d">>, 1, MaxNodes)

\* what a node may refer to: the node ids and an id that is no node
GenTargets == GenIds \o <<"zz">>

GenArtifact == Artifact("gen", "2.0", <<>>)

WellFormedVariants ==
  {Question(<< <<"yes", x>> >>) : x \in Range(GenTargets)}
  \cup {Question(<< <<"yes", GenTargets[p[1]]>>, <<"no", GenTargets[p[2]]>> >>) :
          p \in {p \in (1..Len(GenTargets)) \X (1..Len(GenTargets)) :
                   p[1] < p[2]}}
  \cup {Safety(x) : x \in Range(GenTargets)}
  \cup {Measure(100, 150, <<Branch(Lt118, x)>>) : x \in Range(GenTargets)}
  \cup {Terminal(<<"Done">>, GenArtifact)}

DefectiveVariants ==
  {[type |-> "QUESTION", answers |-> Obj(<< <<"yes", GenIds[1]>> >>)],
   [type |-> "QUESTION", text |-> "question", answers |-> EmptyObj],
   [type |-> "SAFETY", text |-> "warning", nextNode |-> GenIds[1]],
   Measure(150, 100, <<Branch(Lt118, GenIds[1])>>),
   Measure(100, 100, <<Branch(Lt118, GenIds[1])>>),
   Measure(100, 150, <<Branch(<<"~", "1">>, GenIds[1])>>),
   [type |-> "TERMINAL", artifact |-> GenArtifact],
   Terminal(<<"Done">>,
            Obj(<< <<"flow_id", StrA(<<"gen">>)>>,
                   <<"flow_version", StrA(<<"2.0">>)>>,
                   <<"issue", StrA(<<"No Power">>)>>,
                   <<"stop_reason", StrA(<<"Reached terminal">>)>>,
                   <<"last_confirmed_state", StrA(<<"Confirmed">>)>> >>)),
   [type |-> "INFO", text |-> "note"]}

GenNodes == [Range(GenIds) -> WellFormedVariants \cup DefectiveVariants]

GenFlow(startNode, at) ==
  [flowId |-> "gen", flowVersion |-> "2.0", startNode |-> startNode,
   nodes |-> [keys |-> GenIds, at |-> at]]

\* the same nodes as an array of nodes tagged with their ids
AsArray(nodes) ==
  [items |-> [i \in 1..Len(nodes.keys) |->
                [id |-> nodes.keys[i]] @@ nodes.at[nodes.keys[i]]]]

TopLevelVariants ==
  {[flowVersion |-> "2.0", startNode |-> "q1", nodes |-> FlowScenario.nodes],
   [flowId |-> "scenario", startNode |-> "q1", nodes |-> FlowScenario.nodes],
   [flowId |-> "scenario", flowVersion |-> "2.0",
    nodes |-> FlowScenario.nodes],
   [flowId |-> "scenario", flowVersion |-> "2.0", startNode |-> "q1"],
   [flowId |-> "scenario", flowVersion |-> "2.0", startNode |-> "q1",
    nodes |-> EmptyObj],
   [FlowScenario EXCEPT !.startNode = "constructor"],
   [FlowScenario EXCEPT !.nodes = AsArray(FlowScenario.nodes)]}

GenFlows ==
  {GenFlow(startNode, at) :
     startNode \in {GenIds[1], GenIds[2], "zz"}, at \in GenNodes}
  \cup TopLevelVariants \cup Flows

InitV == InitWith(GenFlows)

NextV == Construct

SpecV == InitV /\ [][NextV]_vars

(***************************************************************************)
(* Properties                                                              *)
(***************************************************************************)
\* the reasons with which processResponse rejects a response
Rejections ==
  {"Invalid answer", "requires a numeric value", "outside valid range",
   "no branch matched", "Node not found"}

\* C1: a processResponse call on an in-progress session state that rejects
\* the response (answer key not in answers, non-numeric or out-of-range
\* Measure value, no Measure branch matching, current node missing from the
\* flow) leaves the persisted session state, the history and the caller's
\* state exactly as they were: no Event appended, current node not advanced.
C1_RejectedResponseChangesNothing ==
  [][(/\ last'.op = "processResponse"
      /\ last'.err \in Rejections
      /\ ~Finished(held[last'.sid]))
     => (slot' = slot /\ history' = history /\ held' = held)]_vars

\* a Measure value inside validRange that no branch matches was rejected
\* while the session state was persisted
C1_Witness ==
  /\ last.op = "processResponse"
  /\ last.err = "no branch matched"
  /\ slot # Null


\* C2: when a persistence write fails during a processResponse or stopSession
\* call (the write of the advanced state, of the completed/stopped state, or
\* of the Summary), the call fails and the transition is not committed: the
\* persisted state is the one persisted before the call and the history is
\* unchanged.
C2_FailedWriteCommitsNothing ==
  [][(/\ last'.op \in {"processResponse", "stopSession"}
      /\ last'.err = "storage")
     => (loadSessionState(slot') = loadSessionState(slot)
         /\ history' = history)]_vars

\* C3: after the process is killed at any point of a processResponse or
\* stopSession call, either resumeSession returns an in-progress state of
\* that session, or the persisted state is completed/stopped and the history
\* contains the Summary of that session id.
C3_KillLosesNoProgress ==
  (last.op \in {"processResponse", "stopSession"} /\ last.err = "killed")
  => LET session == resumeSession(flow, slot)
     IN IF session # Null
        THEN session.session_id = last.sid /\ ~Finished(session)
        ELSE /\ slot # Null
             /\ slot.session_id = last.sid
             /\ Finished(slot)
             /\ InHistory(last.sid)


\* normalizeSummary: a Summary without its session id and timestamps
NormalizeEvents(events) ==
  [i \in 1..Len(events) |->
     [node_id |-> events[i].node_id, type |-> events[i].type,
      value |-> events[i].value]]

Normalize(summary) ==
  [flow_id |-> summary.flow_id, flow_version |-> summary.flow_version,
   events |-> NormalizeEvents(summary.events),
   terminal_node_id |-> summary.terminal_node_id,
   result |-> summary.result, artifact |-> summary.artifact,
   stopped |-> summary.stopped]

\* the Summaries of two sessions that were fed the same calls
SamePair(i, j) ==
  /\ i \in 1..Len(history) /\ j \in 1..Len(history) /\ i # j
  /\ inputs[history[i].session_id] = inputs[history[j].session_id]

Resumed(i) == marks[history[i].session_id].resumed

\* C4: determinism: two independently started, uninterrupted sessions on the
\* same validated flow that were fed the same sequence of response values
\* have Summaries that are equal once session id and timestamps are removed.
C4_Determinism ==
  \A i, j \in 1..Len(history) :
    (SamePair(i, j) /\ ~Resumed(i) /\ ~Resumed(j))
    => Normalize(history[i]) = Normalize(history[j])

\* two sessions completed by the same three responses at different times
C4_Witness ==
  \E i, j \in 1..Len(history) :
    /\ SamePair(i, j) /\ ~Resumed(i) /\ ~Resumed(j)
    /\ Len(inputs[history[i].session_id]) >= 3
    /\ ~history[i].stopped
    /\ history[i].started_at # history[j].started_at

\* C5: resume equivalence: a run that is interrupted after some of its
\* responses, continues from the state resumeSession returns on a newly
\* constructed engine and is fed the remaining responses has the same
\* normalised Summary as the uninterrupted run that completes on the same
\* responses.
C5_ResumeEquivalence ==
  \A i, j \in 1..Len(history) :
    (SamePair(i, j) /\ Resumed(i) /\ ~Resumed(j) /\ ~history[j].stopped)
    => Normalize(history[i]) = Normalize(history[j])

\* an uninterrupted session and one that went on, after a restart, from the
\* state resumeSession returned, both completed by the same three responses
C5_Witness ==
  \E i, j \in 1..Len(history) :
    /\ SamePair(i, j) /\ Resumed(i) /\ ~Resumed(j)
    /\ marks[history[i].session_id].reloaded
    /\ ~history[j].stopped
    /\ Len(inputs[history[i].session_id]) >= 3
    /\ Len(history[i].events) >= 4


\* the run that applies the calls one after the other in one process on an
\* empty store, and the history it leaves
RECURSIVE Replay(_, _, _, _)
Replay(raw, st, sessionState, calls) ==
  IF calls = <<>> THEN st
  ELSE LET store == Store(st.slot, st.history, NoFault)
           res == IF Head(calls).op = "respond"
                  THEN processResponse(store, resolveNodes(raw), sessionState,
                                       Head(calls).value, 0)
                  ELSE stopSession(store, raw, resolveNodes(raw),
                                   sessionState, 0)
       IN IF res.err # "none" THEN res.st
          ELSE Replay(raw, res.st, res.ret, Tail(calls))

Reference(raw, calls) ==
  LET res == startSession(Store(Null, <<>>, NoFault), raw, 0, 0)
  IN Replay(raw, res.st, res.ret, calls).history

\* C6: the normalised Summary of a session is the one of the undisturbed run
\* over the same calls, whether or not the process was restarted or another
\* session was started and stopped between its steps, and a session that
\* finished has its Summary in the history.
C6_RestartAndInterleavingInvisible ==
  /\ \A i \in 1..Len(history) :
       history[i].session_id = 1
       => /\ Len(Reference(flow, inputs[1])) = 1
          /\ Normalize(history[i]) = Normalize(Reference(flow, inputs[1])[1])
  /\ (held[1] # Null /\ Finished(held[1])) => InHistory(1)


\* the calls that run a session
SessionCalls ==
  {"startSession", "resumeSession", "processResponse", "stopSession"}

\* C7: no session exists for a rejected flow: the constructor validates first
\* and fails when validation fails, so there is no engine on which
\* startSession, resumeSession, processResponse or stopSession could run,
\* and no session state is held, persisted or summarised.
C7_NoSessionForRejectedFlow ==
  ~validate(flow).ok
  => /\ engine.state # "ready"
     /\ last.op \notin SessionCalls
     /\ slot = Null /\ history = <<>>
     /\ \A i \in Sessions : held[i] = Null

\* the constructor was called on a flow that validate rejects, and threw
C7_Witness ==
  /\ ~validate(flow).ok
  /\ last.op = "construct"
  /\ engine.state = "failed"


\* the artifact of the stopSession call that just returned, and the template
\* it was built from
StopArtifact == held[last.sid].partial_artifact

StopTemplate == getTemplateArtifact(flow, resolveNodes(flow))

Universal == Range(RequiredFields)

\* the node ids a template text refers to with {{id.value}}
RefsOf(tokens) ==
  {tokens[i + 1] : i \in {i \in 1..(Len(tokens) - 4) :
                            tokens[i] = "{{" /\ tokens[i + 4] = "}}"}}

\* a field is collected once a node its template refers to was answered
Collected(templateValue, events) ==
  /\ templateValue.k = "string"
  /\ \E nodeId \in RefsOf(templateValue.s) : HasEvent(events, nodeId)

UniversalAreStrings(artifact) ==
  \A f \in Universal : Has(artifact, f) /\ artifact.at[f].k = "string"

RECURSIVE Substituted(_, _)
Substituted(tokens, events) ==
  IF tokens = <<>> THEN <<>>
  ELSE IF Len(tokens) >= 5 /\ tokens[1] = "{{" /\ tokens[5] = "}}"
  THEN <<IF HasEvent(events, tokens[2])
         THEN String(EventValue(events, tokens[2])) ELSE "Unknown">>
       \o Substituted(SubSeq(tokens, 6, Len(tokens)), events)
  ELSE <<Head(tokens)>> \o Substituted(Tail(tokens), events)

NodesOf(raw) ==
  IF "nodes" \notin DOMAIN raw THEN EmptyObj
  ELSE IF IsArrayNodes(raw.nodes)
  THEN [keys |-> [i \in 1..Len(raw.nodes.items) |-> raw.nodes.items[i].id],
        at   |-> [id \in {raw.nodes.items[i].id :
                            i \in 1..Len(raw.nodes.items)} |->
                    CHOOSE n \in Range(raw.nodes.items) : n.id = id]]
  ELSE raw.nodes

Operators ==
  {<<"<">>, <<"<", "=">>, <<">">>, <<">", "=">>, <<"=", "=">>, <<"!", "=">>}

\* a condition is an operator, optional spaces and a decimal number
Parseable(condition) ==
  LET c == Trim(condition)
  IN \E n \in 1..2 :
       /\ Len(c) > n
       /\ SubSeq(c, 1, n) \in Operators
       /\ LET number == DropSpaces(SubSeq(c, n + 1, Len(c)))
          IN /\ number # <<>>
             /\ \A i \in 1..Len(number) : number[i] \in Digits \cup {"."}

HasText(r, f) == f \in DOMAIN r /\ r[f] # ""

SoundArtifact(artifact) ==
  /\ \A f \in Universal : Has(artifact, f) /\ artifact.at[f].k = "string"
  /\ \A f \in {"stabilization_actions", "recommendations"} :
       Has(artifact, f)
       => /\ artifact.at[f].k = "array"
          /\ \A i \in 1..Len(artifact.at[f].items) :
               artifact.at[f].items[i].k = "string"
  /\ Has(artifact, "notes") => artifact.at["notes"].k = "string"

\* the node has every required text and field, a range with min < max,
\* parseable conditions, and refers only to ids of the flow
SoundNode(node, ids) ==
  /\ HasText(node, "type")
  /\ CASE node.type = "QUESTION" ->
            /\ HasText(node, "text")
            /\ "answers" \in DOMAIN node
            /\ node.answers.keys # <<>>
            /\ \A k \in Range(node.answers.keys) : node.answers.at[k] \in ids
       [] node.type = "SAFETY" ->
            HasText(node, "text") /\ "next" \in DOMAIN node /\ node.next \in ids
       [] node.type = "MEASURE" ->
            /\ HasText(node, "text")
            /\ "validRange" \in DOMAIN node
            /\ DOMAIN node.validRange = {"min", "max"}
            /\ node.validRange.min.k = "number"
            /\ node.validRange.max.k = "number"
            /\ node.validRange.min.n < node.validRange.max.n
            /\ "branches" \in DOMAIN node
            /\ node.branches # <<>>
            /\ \A i \in 1..Len(node.branches) :
                 /\ DOMAIN node.branches[i] = {"condition", "next"}
                 /\ Parseable(node.branches[i].condition)
                 /\ node.branches[i].next \in ids
       [] node.type = "TERMINAL" ->
            /\ "result" \in DOMAIN node /\ node.result # <<>>
            /\ "artifact" \in DOMAIN node
            /\ SoundArtifact(node.artifact)
       [] OTHER -> FALSE

\* the ids a node leads to
Targets(node) ==
  CASE node.type = "QUESTION" ->
         {node.answers.at[k] : k \in Range(node.answers.keys)}
    [] node.type = "SAFETY"  -> {node.next}
    [] node.type = "MEASURE" ->
         {node.branches[i].next : i \in 1..Len(node.branches)}
    [] OTHER -> {}

\* the keys of nodes reachable from startNode along Targets
RECURSIVE Closure(_, _, _)
Closure(reached, nodes, n) ==
  IF n = 0 THEN reached
  ELSE Closure(reached \cup UNION {Targets(nodes.at[id]) : id \in reached},
               nodes, n - 1)

Reachable(startNode, nodes) ==
  IF Has(nodes, startNode)
  THEN Closure({startNode}, nodes, Len(nodes.keys)) \cap Range(nodes.keys)
  ELSE {}

Unreachable(raw) ==
  Range(NodesOf(raw).keys) \ Reachable(raw.startNode, NodesOf(raw))

\* the catalogue of defects
Defective(raw) ==
  LET nodes == NodesOf(raw)
      ids   == Range(nodes.keys)
  IN \/ ~HasText(raw, "flowId") \/ ~HasText(raw, "flowVersion")
     \/ ~HasText(raw, "startNode")
     \/ ids = {}
     \/ raw.startNode \notin ids
     \/ \E id \in ids : ~SoundNode(nodes.at[id], ids)
     \/ ~\E id \in ids : nodes.at[id].type = "TERMINAL"
     \/ Unreachable(raw) # {}

\* C9: validation soundness: validate rejects every flow with a missing or
\* non-existent startNode, a dangling Question, Safety or Measure reference,
\* a validRange with min >= max, a missing required text or field, no
\* Terminal or an unreachable node, and accepts every flow with none of the
\* documented defects.
C9_ValidationSoundness ==
  engine.state # "none" => (engine.verdict.ok <=> ~Defective(flow))

\* the flows that pass the top-level and the per-node checks
PassesShapeChecks(raw) ==
  validateTopLevel(raw).ok /\ validateNodes(raw.nodes).ok

\* C10 (as stated): a flow that passes the top-level and per-node checks is
\* rejected by validate if and only if some key of nodes is unreachable from
\* startNode, and the rejection names exactly the unreachable ids.
C10_RejectedIffUnreachable ==
  (engine.state # "none" /\ PassesShapeChecks(flow))
  => /\ ~engine.verdict.ok <=> Unreachable(flow) # {}
     /\ ~engine.verdict.ok => Range(engine.verdict.detail) = Unreachable(flow)

\* C10 (amended): a flow that passes the top-level and per-node checks is
\* rejected with the unreachable-nodes error if and only if some key of
\* nodes is unreachable from startNode, the error names each unreachable id
\* exactly once and no other id, and a flow with every key reachable is
\* rejected only for having no Terminal node.
C10_ReachabilityVerdict ==
  (engine.state # "none" /\ PassesShapeChecks(flow))
  => /\ engine.verdict.rule = "Unreachable nodes" <=> Unreachable(flow) # {}
     /\ engine.verdict.rule = "Unreachable nodes"
        => /\ Range(engine.verdict.detail) = Unreachable(flow)
           /\ Len(engine.verdict.detail) = Cardinality(Unreachable(flow))
     /\ Unreachable(flow) = {}
        => (engine.verdict.ok
            \/ engine.verdict = validateHasTerminal(flow.nodes))

\* a flow was rejected whose first node leads, over the second answer of a
\* question only, to a node, and which has exactly one unreachable node
C10_Witness ==
  /\ engine.state = "failed"
  /\ PassesShapeChecks(flow)
  /\ engine.verdict.rule = "Unreachable nodes"
  /\ Len(engine.verdict.detail) = 1
  /\ flow.nodes.at[flow.startNode].type = "QUESTION"
  /\ Len(flow.nodes.at[flow.startNode].answers.keys) = 2


\* the ids a node leads to, none where the node lacks the field that holds
\* them
EdgesOf(node) ==
  IF "type" \notin DOMAIN node THEN {}
  ELSE CASE node.type = "QUESTION" /\ "answers" \in DOMAIN node ->
              {node.answers.at[k] : k \in Range(node.answers.keys)}
         [] node.type = "SAFETY" /\ "next" \in DOMAIN node -> {node.next}
         [] node.type = "MEASURE" /\ "branches" \in DOMAIN node ->
              {node.branches[i].next : i \in 1..Len(node.branches)}
         [] OTHER -> {}

RECURSIVE ClosureOf(_, _, _)
ClosureOf(reached, nodes, n) ==
  IF n = 0 THEN reached
  ELSE ClosureOf(
         reached \cup UNION {EdgesOf(nodes.at[id]) :
                               id \in reached \cap Range(nodes.keys)},
         nodes, n - 1)

\* the four checks, each decided on its own from the flow document
TopLevelFails(raw) ==
  \/ ~HasText(raw, "flowId") \/ ~HasText(raw, "flowVersion")
  \/ ~HasText(raw, "startNode")
  \/ NodesOf(raw).keys = <<>>
  \/ raw.startNode \notin Range(NodesOf(raw).keys)

PerNodeFails(raw) ==
  \E id \in Range(NodesOf(raw).keys) :
    ~SoundNode(NodesOf(raw).at[id], Range(NodesOf(raw).keys))

ReachabilityFails(raw) ==
  Range(NodesOf(raw).keys)
    \ ClosureOf({raw.startNode}, NodesOf(raw), Len(NodesOf(raw).keys)) # {}

TerminalExistenceFails(raw) ==
  ~\E id \in Range(NodesOf(raw).keys) :
     /\ "type" \in DOMAIN NodesOf(raw).at[id]
     /\ NodesOf(raw).at[id].type = "TERMINAL"

\* the position, in the fixed order, of the earliest check the flow fails;
\* 5 when it fails none
EarliestFailing(raw) ==
  IF TopLevelFails(raw) THEN 1
  ELSE IF PerNodeFails(raw) THEN 2
  ELSE IF ReachabilityFails(raw) THEN 3
  ELSE IF TerminalExistenceFails(raw) THEN 4
  ELSE 5

TopLevelRules ==
  {"flowId", "flowVersion", "startNode", "nodes missing", "nodes array",
   "nodes empty", "startNode does not exist"}

\* the position of the check a verdict reports
StageOf(verdict) ==
  CASE verdict.ok -> 5
    [] verdict.rule \in TopLevelRules -> 1
    [] verdict.rule = "Unreachable nodes" -> 3
    [] verdict.rule = "no TERMINAL node" -> 4
    [] OTHER -> 2

\* C11: validation is fail-fast in the order top-level shape, per-node
\* structure, reachability, Terminal existence: the reason validate reports
\* for a flow that fails one or several of the checks is that of the
\* earliest check, in this order, that the flow fails.
C11_FailFastOrder ==
  (engine.state # "none" /\ EarliestFailing(flow) < 5)
  => StageOf(engine.verdict) = EarliestFailing(flow)


\* the node at which the session held for sid is
CurrentNode(sid) == NodeAt(resolveNodes(flow), held[sid].current_node_id)

\* the session held for sid is in progress at a Measure node
AtMeasure(sid) ==
  /\ engine.state = "ready"
  /\ held[sid] # Null
  /\ ~Finished(held[sid])
  /\ CurrentNode(sid).type = "MEASURE"

\* C12: Measure bounds are inclusive and checked before branching: at a
\* Measure node a numeric value below validRange.min or above validRange.max
\* is rejected as out of range with nothing recorded, persisted or routed,
\* whatever the branch conditions say about it, and a value from min to max,
\* both included, is never rejected as out of range: it is recorded and
\* routed to the node the branch list resolves it to (or fails for want of a
\* matching branch).
C12_MeasureBoundsInclusive ==
  [][\A value \in MeasureValues :
       (/\ AtMeasure(1)
        /\ ~isNaN(Number(value))
        /\ Respond(1, value, NoFault, 0))
       => LET node     == CurrentNode(1)
              n        == Number(value).n
              resolved == resolveMeasureBranch(node.branches, n)
          IN IF n < node.validRange.min.n \/ n > node.validRange.max.n
             THEN /\ last'.err = "outside valid range"
                  /\ slot' = slot /\ held' = held /\ history' = history
             ELSE IF Falsy(resolved)
             THEN last'.err = "no branch matched"
             ELSE /\ last'.err = "none"
                  /\ held'[1].events[Len(held[1].events) + 1] =
                       Event(held[1].current_node_id, "MEASURE", value, now)
                  /\ held'[1].current_node_id = resolved]_vars

\* the last response, given at a Measure node, was a value equal to the
\* upper bound of its validRange, and it was accepted and routed
C12_Witness ==
  /\ last.op = "processResponse" /\ last.err = "none"
  /\ \E i \in 1..Len(held[1].events) :
       /\ held[1].events[i].type = "MEASURE"
       /\ Number(held[1].events[i].value).n =
            NodeAt(resolveNodes(flow),
                   held[1].events[i].node_id).validRange.max.n
       /\ i + 1 = Len(held[1].events)


\* the branches, by position, whose condition is true for a value
TrueBranches(node, n) ==
  {i \in 1..Len(node.branches) :
     evaluateCondition(node.branches[i].condition, n)}

InRange(node, n) ==
  node.validRange.min.n <= n /\ n <= node.validRange.max.n

\* C13: at a Measure node, an in-range value takes the session to the next
\* of the first branch, in declaration order, whose condition is true for
\* it, whatever later branches with a true condition lead to; when no
\* condition is true processResponse fails with the engine's no-branch error
\* and changes nothing.
C13_FirstMatchingBranch ==
  [][\A value \in MeasureValues :
       (/\ AtMeasure(1)
        /\ ~isNaN(Number(value))
        /\ InRange(CurrentNode(1), Number(value).n)
        /\ Respond(1, value, NoFault, 0))
       => LET node  == CurrentNode(1)
              holds == TrueBranches(node, Number(value).n)
          IN IF holds = {}
             THEN /\ last'.err = "no branch matched"
                  /\ slot' = slot /\ held' = held /\ history' = history
             ELSE /\ last'.err = "none"
                  /\ held'[1].current_node_id =
                       node.branches[CHOOSE i \in holds :
                                       \A j \in holds : i <= j].next]_vars

\* a reading for which two branches with different targets are true was
\* routed to the target of the first of them
C13_Witness ==
  /\ last.op = "processResponse" /\ last.err = "none"
  /\ \E e \in Range(held[1].events) :
       /\ e.type = "MEASURE"
       /\ LET node  == NodeAt(resolveNodes(flow), e.node_id)
              holds == TrueBranches(node, Number(e.value).n)
          IN /\ Cardinality(holds) >= 2
             /\ \E i, j \in holds :
                  /\ i < j
                  /\ node.branches[i].next # node.branches[j].next
                  /\ held[1].current_node_id = node.branches[i].next


\* the input sequence "yes", true, 11.5 of the documented scenario
ScenarioCalls ==
  <<[op |-> "respond", value |-> StrV("yes")],
    [op |-> "respond", value |-> BoolV(TRUE)],
    [op |-> "respond", value |-> NumV(115)]>>

\* the session of the scenario flow was fed exactly the scenario's inputs
ScenarioRun ==
  /\ flow = FlowScenario
  /\ held[1] # Null
  /\ inputs[1] = ScenarioCalls

\* the session is completed at the Terminal id with the three response
\* events followed by one Terminal event
CompletedAt(state, id) ==
  /\ state.completed /\ ~state.stopped
  /\ state.terminal_node_id = id
  /\ state.result = FlowScenario.nodes.at[id].result
  /\ Len(state.events) = 4
  /\ [i \in 1..4 |-> <<state.events[i].node_id, state.events[i].type>>] =
       << <<"q1", "QUESTION">>, <<"s1", "SAFETY">>, <<"m1", "MEASURE">>,
          <<id, "TERMINAL">> >>
  /\ [i \in 1..3 |-> state.events[i].value] =
       [i \in 1..3 |-> ScenarioCalls[i].value]

\* C14 (as stated): in the scenario flow (q1 -> s1 -> m1 10..15 with
\* branches "< 11.8" -> t1, ">= 11.8" -> t2) the inputs "yes", true, 11.5
\* complete the session at Terminal t2 with three response events followed
\* by one Terminal event.
C14_ScenarioEndsAtT2 ==
  ScenarioRun => CompletedAt(held[1], "t2")

\* C14 (amended): in the scenario flow the inputs "yes", true, 11.5 complete
\* the session at Terminal t1, the target of the first branch "< 11.8",
\* which 11.5 satisfies, with three response events followed by one Terminal
\* event (four events in total) and t1's result.
C14_ScenarioEndsAtT1 ==
  ScenarioRun => CompletedAt(held[1], "t1")

\* the scenario's three inputs were given to a session of the scenario flow
\* and the third call returned
C14_Witness ==
  /\ ScenarioRun
  /\ last.op = "processResponse" /\ last.err = "none"
  /\ held[1].completed


\* the node the current node of the session held for sid assigns to a value
NextOf(sid, value) ==
  NodeAt(resolveNodes(flow), nextNodeId(CurrentNode(sid), value))

\* the session held for sid is at a node that is no Terminal, and the value
\* leads from it to a Terminal
LeadsToTerminal(sid, value) ==
  /\ engine.state = "ready"
  /\ held[sid] # Null
  /\ CurrentNode(sid).type \in {"QUESTION", "SAFETY", "MEASURE"}
  /\ validateResponse(CurrentNode(sid), value) = "ok"
  /\ NextOf(sid, value).type = "TERMINAL"

\* the Summary of a completed state
SummaryOf(state) ==
  [flow_id |-> state.flow_id, flow_version |-> state.flow_version,
   session_id |-> state.session_id, started_at |-> state.started_at,
   completed_at |-> state.completed_at, events |-> state.events,
   terminal_node_id |-> state.terminal_node_id, result |-> state.result,
   artifact |-> state.artifact, stopped |-> FALSE]

\* C15: when an accepted response leads to a Terminal node, the same
\* processResponse call completes the session: the returned state, which is
\* also the persisted one, has the response event followed by one event for
\* the Terminal, completed = true, stopped = false, terminalNodeId the
\* Terminal's id, its result and its artifact template verbatim, and a
\* Summary of that state with stopped = false is appended to the history.
C15_TerminalAutoComplete ==
  [][\A value \in Values :
       (LeadsToTerminal(1, value) /\ Respond(1, value, NoFault, MaxExtra))
       => LET id       == nextNodeId(CurrentNode(1), value)
              terminal == NextOf(1, value)
              returned == held'[1]
              n        == Len(held[1].events)
          IN /\ last'.err = "none"
             /\ slot' = returned
             /\ Len(returned.events) = n + 2
             /\ SubSeq(returned.events, 1, n) = held[1].events
             /\ returned.events[n + 1] =
                  Event(held[1].current_node_id, CurrentNode(1).type,
                        value, now)
             /\ returned.events[n + 2].node_id = id
             /\ returned.events[n + 2].type = "TERMINAL"
             /\ returned.completed /\ ~returned.stopped
             /\ returned.terminal_node_id = id
             /\ returned.result = terminal.result
             /\ returned.artifact = terminal.artifact
             /\ history' = Append(history, SummaryOf(returned))]_vars


\* the session held for sid is not completed and its current node is a
\* Terminal
AtTerminal(sid) ==
  /\ engine.state = "ready"
  /\ held[sid] # Null
  /\ ~held[sid].completed
  /\ CurrentNode(sid).type = "TERMINAL"

\* C16: when the current node of a state that is not completed is itself a
\* Terminal (the start node of the flow, or the node at which a state was
\* resumed), processResponse with any value completes the session instead of
\* advancing: exactly one event, for that Terminal, is appended,
\* currentNodeId is unchanged and equals terminalNodeId, and completed is
\* true.
C16_CompleteAtTerminal ==
  [][\A value \in Values :
       (AtTerminal(1) /\ Respond(1, value, NoFault, MaxExtra))
       => /\ last'.err = "none"
          /\ Len(held'[1].events) = Len(held[1].events) + 1
          /\ SubSeq(held'[1].events, 1, Len(held[1].events)) = held[1].events
          /\ Last(held'[1].events).node_id = held[1].current_node_id
          /\ Last(held'[1].events).type = "TERMINAL"
          /\ held'[1].current_node_id = held[1].current_node_id
          /\ held'[1].terminal_node_id = held[1].current_node_id
          /\ held'[1].completed]_vars

\* a session whose state was saved at a Terminal, no completion written,
\* when the process died was resumed after the restart and completed by the
\* response "no"
C16_Witness ==
  /\ last.op = "processResponse" /\ last.err = "none"
  /\ held[1] # Null
  /\ marks[1].reloaded
  /\ held[1].completed
  /\ Len(held[1].events) = 2
  /\ held[1].events[1].type = "QUESTION"
  /\ held[1].events[2] =
       Event(held[1].current_node_id, "TERMINAL", StrV("no"), now)


\* the session held for sid is neither completed nor stopped
InProgress(sid) ==
  /\ engine.state = "ready"
  /\ held[sid] # Null
  /\ ~Finished(held[sid])

\* C17: stopSession on an in-progress state s returns a state equal to s
\* except stopped = true, stoppedAt set, stopNodeId = s.currentNodeId and
\* partialArtifact = the artifact built for s, persists exactly that state,
\* and appends to the history one Summary of the session with stopped =
\* true, terminalNodeId = s.currentNodeId, events = s.events and the partial
\* artifact as artifact.
C17_StopSession ==
  [][(InProgress(1) /\ Stop(1, NoFault, MaxExtra))
     => LET s        == held[1]
            built    == buildStopArtifact(flow, resolveNodes(flow), s)
            returned == [stopped |-> TRUE, stopped_at |-> now,
                         stop_node_id |-> s.current_node_id,
                         partial_artifact |-> built] @@ s
        IN /\ last'.err = "none"
           /\ held'[1] = returned
           /\ slot' = returned
           /\ Len(history') = Len(history) + 1
           /\ SubSeq(history', 1, Len(history)) = history
           /\ Last(history').session_id = s.session_id
           /\ Last(history').stopped
           /\ Last(history').terminal_node_id = s.current_node_id
           /\ Last(history').events = s.events
           /\ Last(history').artifact = built]_vars


\* the three fields a STOP overwrites
StopFields == {"stop_reason", "last_confirmed_state", "safety_notes"}

\* a stopSession call has just returned
Stopped == last.op = "stopSession" /\ last.err = "none"

\* C18: in every artifact built by stopSession, stop_reason is "User stopped
\* diagnostic at node: <currentNodeId>", last_confirmed_state is the
\* description built from the last answered node and value and the current
\* node id (the no-responses sentence when the event log is empty) and
\* safety_notes is the empty string, whatever the Terminal template holds
\* for these three fields, references {{...}} included.
C18_StopFieldsOverwritten ==
  Stopped
  => /\ StopArtifact.at["stop_reason"] =
          StrA(<<"User stopped diagnostic at node: ",
                 held[last.sid].current_node_id>>)
     /\ StopArtifact.at["last_confirmed_state"] =
          StrA(buildLastConfirmedState(held[last.sid]))
     /\ StopArtifact.at["safety_notes"] = StrA(<<>>)


\* the positions of the events recorded for a node
EventsOf(events, n) == {i \in 1..Len(events) : events[i].node_id = n}

\* the stringified value of the last event recorded for n, Unknown when
\* there is none
LastRecorded(events, n) ==
  IF EventsOf(events, n) = {} THEN "Unknown"
  ELSE String(events[CHOOSE i \in EventsOf(events, n) :
                       \A j \in EventsOf(events, n) : j <= i].value)

\* a template text with every reference {{n.value}} replaced
RECURSIVE Resolved(_, _)
Resolved(tokens, events) ==
  IF tokens = <<>> THEN <<>>
  ELSE IF /\ Len(tokens) >= 5
          /\ SubSeq(tokens, 1, 5) = Ref(tokens[2])
  THEN <<LastRecorded(events, tokens[2])>>
       \o Resolved(SubSeq(tokens, 6, Len(tokens)), events)
  ELSE <<Head(tokens)>> \o Resolved(Tail(tokens), events)

\* C19: in the STOP artifact every reference {{n.value}} in the text of a
\* template field (other than the three fields a STOP overwrites) is
\* replaced by the stringified value of the last event recorded for node n
\* in state.events, the latest one when n was answered more than once, or by
\* "Unknown" when no event for n exists; the text around the references is
\* kept.
C19_ReferencesResolved ==
  Stopped
  => \A key \in Range(StopTemplate.keys) \ StopFields :
       (/\ StopTemplate.at[key].k = "string"
        /\ "{{" \in Range(StopTemplate.at[key].s))
       => StopArtifact.at[key] =
            StrA(Resolved(StopTemplate.at[key].s, held[last.sid].events))

\* a session was stopped after q1 was answered twice, with different
\* values, and the Safety node not at all: the field bound to q1 carries the
\* later value, the one bound to s1 is Unknown
C19_Witness ==
  /\ Stopped
  /\ flow = FlowRefs
  /\ Cardinality(EventsOf(held[1].events, "q1")) = 2
  /\ held[1].events[1].value # held[1].events[3].value
  /\ StopArtifact.at["power_source"] =
       StrA(<<String(held[1].events[3].value)>>)
  /\ StopArtifact.at["acknowledged"] = StrA(<<"Unknown">>)


\* the history holds at most one Summary per session id
OnePerSession ==
  \A i, j \in 1..Len(history) :
    history[i].session_id = history[j].session_id => i = j

\* saving a Summary whose session id the history already holds, whatever
\* else it carries, leaves the history as it is
ResaveChangesNothing ==
  \A i \in 1..Len(history) :
    \A stopped \in BOOLEAN :
      saveSessionSummary(Store(slot, history, NoFault),
                         [history[i] EXCEPT !.stopped = stopped]).history
        = history

\* C20: the history is deduplicated by session id: saveSessionSummary with a
\* Summary whose session id is already in the history leaves the history
\* unchanged (same length, same entries), a call that finishes a session
\* whose Summary is already there adds nothing, and so the history holds at
\* most one Summary per session id after any sequence of operations.
C20_HistoryDeduplicated ==
  /\ [](OnePerSession /\ ResaveChangesNothing)
  /\ [][\A sid \in Sessions :
          (/\ InHistory(sid)
           /\ last'.op \in {"processResponse", "stopSession"}
           /\ last'.sid = sid)
          => history' = history]_vars

\* stopSession was called on a session that was already finished and had
\* its Summary in the history, and the history still has one entry
C20_Witness ==
  /\ last.op = "stopSession" /\ last.err = "none"
  /\ marks[1].extra = 1
  /\ Len(history) = 1
  /\ history[1].session_id = 1


\* C21: startSession returns a state with currentNodeId = startNode, an
\* empty event log, completed = false and stopped = false that carries the
\* engine's flowId and flowVersion, and that exact state is the persisted
\* session state when the call returns.
C21_StartSession ==
  last.op = "startSession"
  => /\ held[last.sid] # Null
     /\ held[last.sid].current_node_id = flow.startNode
     /\ held[last.sid].events = <<>>
     /\ ~held[last.sid].completed /\ ~held[last.sid].stopped
     /\ held[last.sid].flow_id = flow.flowId
     /\ held[last.sid].flow_version = flow.flowVersion
     /\ held[last.sid].session_id = last.sid
     /\ slot = held[last.sid]

\* a second session was started while the state of the first, with an
\* event recorded, was the persisted one
C21_Witness ==
  /\ last.op = "startSession"
  /\ last.sid = 2
  /\ held[1] # Null /\ held[1].events # <<>>
  /\ slot = held[2]


\* a session state is persisted, readable, of the engine's flow and neither
\* completed nor stopped
Resumable ==
  /\ slot # Null
  /\ slot # Unreadable
  /\ slot.flow_id = flow.flowId
  /\ ~slot.completed /\ ~slot.stopped

\* C22: resumeSession returns the persisted session state if and only if a
\* state is persisted, its flowId equals the engine's flowId and it is
\* neither completed nor stopped; in every other case (nothing persisted,
\* another flow, completed, stopped, unreadable storage) it returns none.
C22_ResumeSession ==
  [][ResumeSession
     => IF Resumable
        THEN /\ last'.sid = slot.session_id
             /\ held'[slot.session_id] = slot
        ELSE /\ last'.sid = 0
             /\ held' = held]_vars

\* resumeSession returned none although an in-progress session state was
\* persisted, the engine having been constructed on another flow
C22_Witness ==
  /\ last.op = "resumeSession" /\ last.sid = 0
  /\ slot # Null /\ slot # Unreadable
  /\ ~slot.completed /\ ~slot.stopped
  /\ slot.flow_id # flow.flowId


\* what the resumeSession call that has just returned gave back
ResumeResult == IF last.sid = 0 THEN Null ELSE held[last.sid]

\* C23: resumeSession is idempotent and read-only: a call changes neither
\* the persisted session state nor the history, and a further call made
\* before any transition returns the state the call before it returned.
C23_ResumeReadOnly ==
  /\ [][ResumeSession => (slot' = slot /\ history' = history)]_vars
  /\ [](last.op = "resumeSession"
        => resumeSession(flow, slot) = ResumeResult)

\* resumeSession returned the persisted in-progress state, which has an
\* event, and the slot holds that state after the call
C23_Witness ==
  /\ last.op = "resumeSession"
  /\ last.sid # 0
  /\ held[last.sid].events # <<>>
  /\ slot = held[last.sid]


\* earlier is a prefix of later
IsPrefix(earlier, later) ==
  /\ Len(earlier) <= Len(later)
  /\ SubSeq(later, 1, Len(earlier)) = earlier

\* the events a successful processResponse adds to the log of the state held
\* for sid: one for the answered node, then one for the Terminal the answer
\* led to
Recorded(sid, value) ==
  <<Event(held[sid].current_node_id, CurrentNode(sid).type, value, now)>>
  \o IF CurrentNode(sid).type # "TERMINAL"
        /\ NextOf(sid, value).type = "TERMINAL"
     THEN <<Event(nextNodeId(CurrentNode(sid), value), "TERMINAL",
                  BoolV(TRUE), now)>>
     ELSE <<>>

\* C24: the event log is append-only and ordered by call sequence: a
\* processResponse call returns the events of the state it was given,
\* unchanged and in the same order, followed by one event for the answered
\* node and then one Terminal event if the answer leads to a Terminal; no
\* operation removes, rewrites or reorders an earlier event, in the state the
\* caller holds or in the persisted one, whatever the timestamps are.
C24_EventLogAppendOnly ==
  [][/\ \A value \in Values :
          (Respond(1, value, NoFault, MaxExtra) /\ last'.err = "none")
          => held'[1].events = held[1].events \o Recorded(1, value)
     /\ \A sid \in Sessions :
          (held[sid] # Null /\ held'[sid] # Null)
          => IsPrefix(held[sid].events, held'[sid].events)
     /\ (slot # Null /\ slot' # Null /\ slot'.session_id = slot.session_id)
          => IsPrefix(slot.events, slot'.events)]_vars

\* three events recorded by two calls within one clock reading, the last
\* for the Terminal
C24_Witness ==
  /\ last.op = "processResponse" /\ last.err = "none"
  /\ held[1] # Null
  /\ Len(held[1].events) = 3
  /\ held[1].events[1].timestamp = held[1].events[3].timestamp
  /\ held[1].events[1].type # "TERMINAL"
  /\ held[1].events[3].type = "TERMINAL"
  /\ held[1].completed


\* the log ends with an event for node n
EndsWith(events, n) ==
  /\ events # <<>>
  /\ events[Len(events)].node_id = n

\* C25: an event is recorded for every node visited, the final one included:
\* the log of a session that processResponse completes ends with an event
\* for the Terminal node, and the log of a session that stopSession stops,
\* in the stopped state and in its Summary, ends with an event for the node
\* at which it was stopped.
C25_FinalNodeRecorded ==
  [][/\ \A value \in Values :
          (/\ InProgress(1)
           /\ Respond(1, value, NoFault, MaxExtra)
           /\ last'.err = "none"
           /\ held'[1].completed)
          => /\ EndsWith(held'[1].events, held'[1].terminal_node_id)
             /\ held'[1].events[Len(held'[1].events)].type = "TERMINAL"
             /\ EndsWith(history'[Len(history')].events,
                         held'[1].terminal_node_id)
     /\ (InProgress(1) /\ Stop(1, NoFault, MaxExtra) /\ last'.err = "none")
          => /\ EndsWith(held'[1].events, held'[1].stop_node_id)
             /\ EndsWith(history'[Len(history')].events,
                         held'[1].stop_node_id)]_vars


\* the state names a node of the flow as its current node
AtNode(state) ==
  /\ "current_node_id" \in DOMAIN state
  /\ Has(resolveNodes(flow), state.current_node_id)

\* C26: on a validated flow the missing-node error of getCurrentNode is
\* unreachable: in every state produced from startSession by processResponse,
\* stopSession and resumeSession calls, held by the caller or persisted,
\* currentNodeId is a key of the flow's nodes.
C26_CurrentNodeExists ==
  engine.state = "ready"
  => /\ \A sid \in Sessions : held[sid] # Null => AtNode(held[sid])
     /\ slot # Null => AtNode(slot)
     /\ last.err # "Node not found"


(***************************************************************************)
(* SpecCond: one session on flows whose Measure node carries two branch    *)
(* conditions, well formed or not, with readings around the thresholds.    *)
(***************************************************************************)
\* conditions evaluateCondition accepts: the six operators, with and without
\* blanks, and a threshold parseFloat cannot read
WellFormedConditions ==
  {Lt118, Ge118, Gt12,
   <<"<", "=", "1", "2">>,
   <<"=", "=", " ", "1", "2">>,
   <<"!", "=", "1", "2">>,
   <<" ", ">", " ", " ", "1", "2", " ">>,
   <<"<", ".">>}

\* conditions evaluateCondition raises for: no match of the expression, and
\* the operators "=" and "!" that match it but that the switch does not know
MalformedConditions ==
  {<<"~", "1">>,
   <<"=", " ", "1", "2">>,
   <<"!", "1", "2">>,
   <<"<">>,
   <<"1", "2">>,
   <<"<", " ", "-", "1">>,
   <<"=", "<", "1", "2">>,
   <<"<", "1", "2", " ", "V">>}

Conditions == WellFormedConditions \cup MalformedConditions

FlowCond(first, second) ==
  Flow("cond", "m1",
    << <<"m1", Measure(100, 150, <<Branch(first, "t1"),
                                   Branch(second, "t2")>>)>>,
       <<"t1", Terminal(<<"First">>, Artifact("cond", "2.0", <<>>))>>,
       <<"t2", Terminal(<<"Second">>, Artifact("cond", "2.0", <<>>))>> >>)

CondFlows == {FlowCond(first, second) : first, second \in Conditions}

InitCond == InitWith(CondFlows)

NextCond ==
  \/ Construct
  \/ StartSession
  \/ MeasureResponse
  \/ FirstStop
  \/ Tick

SpecCond == InitCond /\ [][NextCond]_vars

\* the branch conditions of the Measure nodes of the flow
ConditionsOf(raw) ==
  LET nodes == resolveNodes(raw)
  IN UNION {{nodes.at[id].branches[i].condition :
               i \in 1..Len(nodes.at[id].branches)} :
            id \in {id \in Range(nodes.keys) :
                      nodes.at[id].type = "MEASURE"}}

\* C27: a malformed branch condition is only ever a validation-time error:
\* whether evaluateCondition raises depends on the condition alone, so one
\* probe per condition decides it, and in a flow that validate accepted no
\* branch condition a reading can be evaluated against raises, whatever the
\* reading.
C27_ConditionsNeverRaise ==
  /\ \A condition \in Conditions :
       ConditionThrows(condition) <=> condition \in MalformedConditions
  /\ engine.state = "ready"
     => \A condition \in ConditionsOf(flow) : ~ConditionThrows(condition)
  /\ engine.state = "failed"
     => \E condition \in ConditionsOf(flow) : ConditionThrows(condition)

\* a reading was evaluated against a condition whose threshold is no number
\* and matched the second branch
C27_Witness ==
  /\ last.op = "processResponse" /\ last.err = "none"
  /\ <<"<", ".">> \in ConditionsOf(flow)
  /\ held[1].completed
  /\ held[1].terminal_node_id = "t2"


\* the flow document with its nodes given as an array of nodes tagged with
\* their ids
ArrayEncoded(raw) == [raw EXCEPT !.nodes = AsArray(raw.nodes)]

\* C28: the two encodings of nodes are equivalent: a flow whose nodes are an
\* array of nodes each tagged with its id gets the verdict of the same flow
\* given as a dictionary keyed by node id, and so an engine that runs the
\* same transitions to the same Summaries.
C28_EncodingsEquivalent ==
  (engine.state # "none" /\ "nodes" \in DOMAIN flow
   /\ ~IsArrayNodes(flow.nodes))
  => /\ validate(ArrayEncoded(flow)).ok <=> engine.verdict.ok
     /\ constructor(ArrayEncoded(flow)).state = engine.state


\* a later session has been started since session sid was
Superseded(sid) == sid < nextId - 1

\* what resumeSession would return is the state of session sid
Resumes(sid) ==
  /\ engine.state = "ready"
  /\ resumeSession(flow, slot) # Null
  /\ resumeSession(flow, slot).session_id = sid

\* C29: single-session model: one slot holds the one persisted session
\* state; startSession while another session is in progress overwrites the
\* slot with the new state and leaves the history unchanged, and from then
\* on resumeSession never returns the superseded session.
C29_SingleSession ==
  /\ [][(slot # Null /\ ~Finished(slot) /\ Start(TRUE, MaxSessions))
        => /\ slot' = held'[last'.sid]
           /\ slot'.session_id # slot.session_id
           /\ history' = history]_vars
  /\ [](\A sid \in Sessions : Superseded(sid) => ~Resumes(sid))


(***************************************************************************)
(* SpecTemplate: one session, stopped at any point, on flows whose         *)
(* Terminal nodes carry different artifact templates.                      *)
(***************************************************************************)
\* q1 -> q2 -> t2, with t1 the first Terminal: t1 gives power_source as a
\* text and has no reading, t2 binds both to answers
FlowTemplates ==
  Flow("templates", "q1",
    << <<"q1", Question(<< <<"yes", "q2">>, <<"no", "t1">> >>)>>,
       <<"q2", Question(<< <<"yes", "t2">>, <<"no", "q1">> >>)>>,
       <<"t1", Terminal(<<"No power">>,
                 Artifact("templates", "2.0",
                   << <<"power_source", StrA(<<"none">>)>> >>))>>,
       <<"t2", Terminal(<<"Powered">>,
                 Artifact("templates", "2.0",
                   << <<"power_source", StrA(Ref("q1"))>>,
                      <<"reading", StrA(Ref("q2"))>> >>))>> >>)

TemplateFlows == {FlowTemplates, FlowScenario}

InitTemplate == InitWith(TemplateFlows)

SpecTemplate == InitTemplate /\ [][NextStop]_vars

\* the artifact templates of the Terminal nodes of the flow
TerminalTemplates ==
  LET nodes == resolveNodes(flow)
  IN {nodes.at[id].artifact :
        id \in {id \in Range(nodes.keys) : nodes.at[id].type = "TERMINAL"}}

\* C30: in a STOP artifact a flow-specific field whose value has already
\* been collected carries the collected value: when some Terminal's template
\* binds field f to {{n.value}} and node n was answered before the stop, f
\* in the partial artifact is n's recorded value, whichever Terminal the
\* engine takes its field template from.
C30_CollectedFieldsKept ==
  Stopped
  => \A template \in TerminalTemplates :
       \A f \in Range(template.keys) \ Universal :
         \A n \in {e.node_id : e \in Range(held[last.sid].events)} :
           template.at[f] = StrA(Ref(n))
           => /\ Has(StopArtifact, f)
              /\ StopArtifact.at[f] =
                   StrA(<<LastRecorded(held[last.sid].events, n)>>)


\* C31: every artifact recorded in a Summary, on completion or on stop, has
\* flow_id and flow_version equal to the flow's flowId and flowVersion, which
\* are the flow_id and flow_version of the Summary that carries it.
C31_ArtifactNamesFlow ==
  \A i \in 1..Len(history) :
    /\ history[i].flow_id = flow.flowId
    /\ history[i].flow_version = flow.flowVersion
    /\ history[i].artifact.at["flow_id"] = StrA(<<history[i].flow_id>>)
    /\ history[i].artifact.at["flow_version"] =
         StrA(<<history[i].flow_version>>)


\* C32: completed and stopped are mutually exclusive: no state returned by
\* the engine or persisted has completed = true together with stopped =
\* true, and no Summary with stopped = true is recorded for a session whose
\* state is completed.
C32_CompletedXorStopped ==
  /\ \A sid \in Sessions :
       held[sid] # Null => ~(held[sid].completed /\ held[sid].stopped)
  /\ slot # Null => ~(slot.completed /\ slot.stopped)
  /\ \A i \in 1..Len(history) :
       (slot # Null /\ history[i].session_id = slot.session_id
        /\ slot.completed)
       => ~history[i].stopped


\* the fields of a session state a finished session keeps
Outcome(state) ==
  [f \in {"events", "current_node_id", "completed", "stopped", "artifact",
          "partial_artifact"} \cap DOMAIN state |-> state[f]]

\* C33: a finished session is final: once a session state has completed =
\* true or stopped = true, no later processResponse or stopSession call on
\* it changes its events, currentNodeId, completed and stopped flags or
\* artifact, neither in the returned value nor in the persisted slot.
C33_FinishedIsFinal ==
  [][(/\ engine.state = "ready"
      /\ held[1] # Null
      /\ Finished(held[1])
      /\ \/ \E value \in Values : Respond(1, value, NoFault, MaxExtra)
         \/ Stop(1, NoFault, MaxExtra))
     => /\ Outcome(held'[1]) = Outcome(held[1])
        /\ slot' = slot]_vars


\* C34: after every startSession, processResponse or stopSession call that
\* returns normally, the persisted session state equals the state the call
\* returned.
C34_PersistedIsReturned ==
  (last.op \in {"startSession", "processResponse", "stopSession"}
   /\ last.err = "none")
  => slot = held[last.sid]


\* the Summaries recorded for session sid
SummariesOf(sid) ==
  {i \in 1..Len(history) : history[i].session_id = sid}

\* C35: the Summary in history agrees with the final session state: whenever
\* the persisted state is completed, history holds a Summary with the same
\* session id whose events equal the state's events, whose terminalNodeId is
\* a Terminal node of the flow and the node id of the last event, and whose
\* result and artifact are that Terminal's result and artifact.
C35_SummaryAgreesWithState ==
  (slot # Null /\ slot.completed)
  => \E i \in SummariesOf(slot.session_id) :
       LET summary  == history[i]
           terminal == NodeAt(resolveNodes(flow), summary.terminal_node_id)
       IN /\ summary.events = slot.events
          /\ terminal.type = "TERMINAL"
          /\ EndsWith(summary.events, summary.terminal_node_id)
          /\ summary.result = terminal.result
          /\ summary.artifact = terminal.artifact


\* the successor the flow assigns to a node for a value: the target of the
\* Question's own answer key, the Safety's next, the Measure's first branch
\* that holds; UndefinedStr when the flow assigns none
SuccessorFor(node, value) ==
  CASE node.type = "QUESTION" ->
         IF Has(node.answers, String(value))
         THEN node.answers.at[String(value)] ELSE UndefinedStr
    [] node.type \in {"SAFETY", "MEASURE"} -> nextNodeId(node, value)
    [] OTHER -> UndefinedStr

\* the successor of the node and value of an event
SuccessorOf(event) ==
  SuccessorFor(NodeAt(resolveNodes(flow), event.node_id), event.value)

\* the events of the state are a path of the flow from startNode that ends
\* at its current node
IsPath(state) ==
  LET events == state.events
      n      == Len(events)
  IN /\ n = 0 => state.current_node_id = flow.startNode
     /\ n > 0 => events[1].node_id = flow.startNode
     /\ \A i \in 2..n : events[i].node_id = SuccessorOf(events[i - 1])
     /\ n > 0 => state.current_node_id =
                   IF state.completed THEN events[n].node_id
                   ELSE SuccessorOf(events[n])

\* C36: the event log is a path of the flow graph: the first event's node is
\* startNode, each later event's node is the successor the flow assigns to
\* the previous event's node for the previous event's value, and
\* currentNodeId is the successor of the last event, startNode when the log
\* is empty, the Terminal itself once completed.
C36_EventLogIsPath ==
  engine.state = "ready"
  => /\ \A sid \in Sessions : held[sid] # Null => IsPath(held[sid])
     /\ slot # Null => IsPath(slot)


\* no node is answered twice in the log
Simple(events) ==
  \A i, j \in 1..Len(events) :
    events[i].node_id = events[j].node_id => i = j

\* C37: sessions terminate: on a flow accepted by validate a session that
\* keeps being given responses valid for its current node reaches a Terminal
\* and becomes completed.  The next node depends on the current node and the
\* response alone, so a session can go on forever exactly when its log can
\* come back to a node it has answered before: every session in progress has
\* answered each node at most once, and fewer nodes than the flow has.
C37_SessionsTerminate ==
  \A sid \in Sessions :
    (engine.state = "ready" /\ held[sid] # Null /\ ~Finished(held[sid]))
    => /\ Simple(held[sid].events)
       /\ Len(held[sid].events) < Len(resolveNodes(flow).keys)


(***************************************************************************)
(* SpecWay: one session with Measure readings on flows that validate       *)
(* accepts, one of them with a branch no reading of the valid range takes. *)
(***************************************************************************)
Gt20 == <<">", " ", "2", "0">>

\* a Measure start node whose only branch asks for more than validRange
\* allows
FlowNoWay ==
  Flow("no-way", "m1",
    << <<"m1", Measure(100, 150, <<Branch(Gt20, "t1")>>)>>,
       <<"t1", Terminal(<<"High">>, Artifact("no-way", "2.0", <<>>))>> >>)

WayFlows == {FlowNoWay, FlowMeasure, FlowScenario}

InitWay == InitWith(WayFlows)

SpecWay == InitWay /\ [][NextMeasure]_vars

\* the nodes a response that processResponse accepts at the node leads to
StepsFrom(node) ==
  CASE node.type = "QUESTION" ->
         {node.answers.at[k] : k \in Range(node.answers.keys)}
    [] node.type = "SAFETY" -> {node.next}
    [] node.type = "MEASURE" ->
         {resolveMeasureBranch(node.branches, n) :
            n \in node.validRange.min.n .. node.validRange.max.n}
         \ {UndefinedStr}
    [] OTHER -> {}

RECURSIVE Walk(_, _, _)
Walk(reached, nodes, n) ==
  IF n = 0 THEN reached
  ELSE Walk(reached \cup UNION {StepsFrom(nodes.at[id]) :
                                  id \in reached \cap Range(nodes.keys)},
            nodes, n - 1)

\* the Terminal nodes among a set of node ids
TerminalsIn(ids, nodes) ==
  {id \in ids \cap Range(nodes.keys) : nodes.at[id].type = "TERMINAL"}

\* C38: in every flow accepted by validate at least one Terminal node is
\* reachable from startNode, so for every accepted flow some sequence of
\* valid responses completes a session.
C38_TerminalReachable ==
  engine.state = "ready"
  => LET nodes == resolveNodes(flow)
         count == Len(nodes.keys)
     IN /\ TerminalsIn(Reachable(flow.startNode, nodes), nodes) # {}
        /\ TerminalsIn(Walk({flow.startNode}, nodes, count), nodes) # {}


\* the node ids validateReachability expands for the flow, in order
ExpansionOrder(raw) == TraverseOrder(<<raw.startNode>>, {}, raw.nodes)

\* the node ids a node of the flow leads to
PushedBy(raw, id) ==
  IF Has(raw.nodes, id) THEN Range(Successors(raw.nodes.at[id])) ELSE {}

\* C39: the reachability traversal terminates for every flow, flows with
\* cycles and self-loops included: each node id is expanded at most once, so
\* the loop runs no more often than there are node ids in the flow, and
\* validate returns a verdict.
C39_TraversalTerminates ==
  /\ engine.state # "none" => engine.verdict.ok \in BOOLEAN
  /\ (engine.state # "none" /\ PassesShapeChecks(flow))
     => LET order == ExpansionOrder(flow)
        IN /\ \A i, j \in 1..Len(order) : order[i] = order[j] => i = j
           /\ Range(order) = Traverse(<<flow.startNode>>, {}, flow.nodes)
           /\ Range(order) \subseteq
                {flow.startNode}
                \cup UNION {PushedBy(flow, id) : id \in Range(flow.nodes.keys)}

\* a verdict on a flow whose start node leads to itself and to a cycle of
\* two other nodes
C39_Witness ==
  /\ engine.state # "none"
  /\ PassesShapeChecks(flow)
  /\ flow.startNode \in PushedBy(flow, flow.startNode)
  /\ \E x, y \in Range(ExpansionOrder(flow)) \ {flow.startNode} :
       /\ x # y
       /\ y \in PushedBy(flow, x)
       /\ x \in PushedBy(flow, y)

====
